---------------------------- MODULE Spec2Model ----------------------------
(***************************************************************************)
(* LitScout: ingestion from the OpenAlex provider, the embedding pipeline  *)
(* and the semantic search engine, modelled from the Python sources under  *)
(* src/litscout/server.  Each subsystem has a specification of its own     *)
(* (SpecGet, SpecIter, SpecUpsert, SpecIngest, ...); the variables of the  *)
(* other subsystems stay at their idle values.                             *)
(***************************************************************************)
EXTENDS Integers, Sequences, FiniteSets, TLC

VARIABLES
    \* ---- client._get (one call) ----
    attempt,        \* loop variable of `for attempt in range(1, MAX_RETRIES + 1)`
    delay,          \* backoff delay in seconds, a fraction <<num, den>>
    last_resp,      \* the last response: <<>> for None, else <<status>>
    get_requests,   \* number of calls of requests.get made so far
    get_history,    \* statuses of the responses received, in order
    get_sleeps,     \* durations passed to time.sleep, in order
    get_result,     \* [kind |-> "running" | "returned" | "raised", error |-> ...]
    \* ---- the provider and client.iter_works_for_concept (one generator) ----
    provider,       \* cursor -> the page the provider answers with, NoPage if not asked yet
    it_pages,       \* argument `pages`
    cursor,         \* local `cursor`
    page_count,     \* local `page_count`
    it_buf,         \* `results` of the page being yielded
    it_idx,         \* position of the next work of it_buf to yield
    it_next,        \* data["meta"]["next_cursor"] of the page being yielded
    it_pc,          \* "idle" | "loop" | "yield" | "advance" | "done" | "raised"
    it_requests,    \* cursors sent to the provider, in order
    it_responses,   \* pages received, in order
    it_yielded,     \* works yielded to the consumer, in order
    \* ---- the store ----
    committed,      \* the committed tables
    txn,            \* the tables as the open connection sees them
    id_seqs,        \* the id sequences of papers and authors
    \* ---- a caller of db_writer's upserts ----
    up_calls,       \* number of upsert calls made
    up_last,        \* the last call: its operation, argument and returned id
    \* ---- ingest.ingest_openalex_concept (one task, run after run) ----
    ing_works,      \* the works the provider yields for the concept, every run
    ing_run,        \* number of runs started
    ing_outcome,    \* "idle" | "running" | "ok" | "failed" | "crashed"
    ing_pc,         \* position in the body: "for" | "concepts" | "authors" | ...
    ing_idx,        \* works taken from the generator in this run
    ing_p,          \* local `p`, the normalized work
    ing_todo,       \* concepts of p not yet upserted
    ing_author_ids, \* local `author_ids`
    ing_paper_id,   \* local `paper_id`
    ing_count,      \* local `count`
    ing_start,      \* the committed store and sequences when the run began
    ing_snap,       \* row counts when the first run completed
    \* ---- ingest.ingest_openalex_concepts (the thread pool) ----
    pool_args,      \* the call's arguments concept_ids, max_workers, skip_existing
    pool_pc,        \* "idle" | "running" | "done" | "returned"
    pool_ids,       \* local `concept_ids` after deduplication and filtering
    pool_workers,   \* local `max_workers` after min(...)
    pool_task,      \* concept id -> "none" | "queued" | "running" | "marking" |
                    \*               "finished" | "collected"
    pool_ddl,       \* who has executed CREATE TABLE IF NOT EXISTS openalex_ingested_concepts
    pool_future,    \* concept id -> the tuple the worker returned
    pool_raised,    \* concept ids whose ingest_openalex_concept raised
    pool_results,   \* local `results`
    pool_counts,    \* <<success_count, failure_count>>
    \* ---- embeddings._embed_missing_entities (run after run) ----
    emb_store,      \* paper id -> its title, abstract and conclusion
    emb_rows,       \* paper_embeddings: the set of <<paper_id, model_name>>
    emb_pc,         \* "idle" | "batches" | "finished" | "aborted"
    emb_args,       \* the run's batch_size and limit
    emb_ids,        \* local `ids`
    emb_texts,      \* local `texts`
    emb_i,          \* loop variable `i`, 0-based
    emb_calls,      \* the id batches handed to the encoder in this run, in order
    emb_failed,     \* the encoder raised or miscounted in this run
    emb_had,        \* ids that had a row for the model label when the run selected
    emb_runs,       \* number of runs started
    emb_ctx,        \* what preceded this run: "other" | "clean" | "clean_then_delete"
    emb_since,      \* what happened since the last run ended, same values
    emb_deleted,    \* the id whose embedding was deleted last
    \* ---- search._ensure_index_once and the index tuner, several threads ----
    INDEX_TUNING,   \* the module-level cache _INDEX_TUNING: kind -> lists, probes, initialized
    ix_rows,        \* kind -> number of rows with a vector in the embeddings table
    ix_lists,       \* kind -> `lists` of the IVFFLAT index, <<>> when there is none
    ix_pc,          \* thread -> "idle" | "check" | "tune" | "store" | "params"
    ix_kind,        \* thread -> argument index_type of its call
    ix_local,       \* thread -> (lists, probes) returned to it by the tuner
    ix_used,        \* thread -> (lists, probes) its last search ran with
    ix_searches,    \* number of searches started
    ix_tuned,       \* kind -> number of times the tuner has run to its end
    \* ---- search.py: the search functions on one store and one query ----
    s_store,        \* distances of the embedded papers and concepts, papers.concepts
    s_pc,           \* "new" | "papers" | "via" | "hybrid": the calls made so far
    s_req,          \* the arguments used: limit, offset, top_k_concepts, ...
    s_papers,       \* what search_papers(query, limit, offset) returned
    s_via,          \* what search_papers_via_concepts(...) returned
    s_hybrid,       \* what search_papers_hybrid(...) returned
    s_sources,      \* what search_sources_from_papers(...) returned
    s_prev,         \* <<total>> of the same search made before with another page
    \* ---- the callers of the search: api.py, cli.py, search/semantic.py ----
    e_hits,         \* the store seen by the call: [hits, missing]
    e_pc,           \* "idle" | "new" | "done"
    e_call,         \* the call made: entry point, search type, query, weights
    e_used,         \* <<paper_weight, concept_weight>> handed to the search, or <<>>
    e_encoded,      \* the texts handed to the encoder, in order
    e_outcome,      \* "none" | "empty" | "rows" | "raised"
    \* ---- papers.concepts of one paper: normalizer.py, db_writer.py, enrich.py ----
    pc_row,         \* NoRow, or the stored concepts map: a set of [id, score]
    pc_given,       \* the "concepts" list of the provider record last handled
    pc_last,        \* "idle" | "none" | the last write
    pc_count,       \* writes made
    \* ---- the worker pools and their cursors: ingest.py, enrich.py ----
    cx_kind,        \* which pool: "ingest" | "enrich_concepts" | ...
    cx_workers,     \* max_workers of the pool
    cx_pc,          \* "idle" | "new" | "running" | "done"
    cx_task,        \* task -> [state, thread, cursor]
    cx_users,       \* pairs <<cursor, thread>>: the thread has used the cursor
    \* ---- one run of embeddings._embed_missing_entities, statement by statement ----
    en_ids,         \* local `ids`: the selected ids that have a text
    en_bs,          \* argument batch_size
    en_i,           \* loop variable `i`, 0-based
    en_pc,          \* "loop" | "encode" | "sleep" | "insert" | "commit" | "done" | "crashed"
    en_attempt,     \* loop variable `attempt` of embed_texts_local
    en_hist,        \* batch start -> encoder calls, waits slept, outcome
    en_j,           \* rows of the batch the insert loop has executed
    en_txn,         \* ids written in the open transaction
    en_committed,   \* ids whose row for the model label is committed
    en_log,         \* batch starts for which log.error was called
    \* ---- paper_embeddings under _insert_embeddings_batch of both modules ----
    wr_schema,      \* the unique constraints of the table
    wr_table,       \* the rows [id, label, vec, at]
    wr_clock,       \* calls made; NOW() of the next call is wr_clock + 1
    wr_last,        \* the last call: writer, label, ids, table before, outcome
    \* ---- auto_index._ensure_embedding_index on one table ----
    tn_rows,        \* rows with a non-NULL vector
    tn_index,       \* NoIndex, or <<lists>> of the existing index
    tn_runs,        \* tuner runs made
    tn_last,        \* the last run: its inputs, what it returned, its DDL
    \* ---- normalizer._reconstruct_abstract ----
    abs_index,      \* the inverted index: a sequence of <<word, positions>>
    abs_pc,         \* "given" | "returned" | "raised"
    abs_text,       \* the string returned
    \* ---- search_papers_hybrid called for consecutive pages ----
    pg_store,       \* the store searched
    pg_req,         \* the arguments kept fixed: L, weights, top-K parameters
    pg_pc,          \* "new" | "first" | "second" | "whole"
    pg_first,       \* papers of the page (limit L, offset 0)
    pg_second,      \* papers of the page (limit L, offset L)
    pg_whole,       \* papers of the page (limit 2L, offset 0)
    \* ---- title of one paper row (normalizer.py, db_writer.py, enrich.py) ----
    tt_row,         \* the paper's row: whether it exists and its title column
    tt_last,        \* the last operation on the row and what the provider gave
    tt_count,       \* operations made so far
    \* ---- searches on a store that may hold no concept embedding (search.py) ----
    zc_store,       \* the store searched
    zc_pc,          \* "new", or the search made: "via" or "hybrid"
    zc_req,         \* the arguments of the search
    zc_via,         \* what search_papers_via_concepts returned
    zc_hybrid,      \* what search_papers_hybrid returned
    zc_queried,     \* the queries the search made, in order
    \* ---- GET /search (main.py) ----
    ap_pc,          \* "new" before the request, "done" after the answer
    ap_req,         \* the query parameters of the request, each absent <<>> or <<value>>
    ap_calls,       \* the keyword arguments of every call of semantic_search
    ap_returned,    \* what semantic_search did: not called, raised, or the titles of its results
    ap_status,      \* the status code of the answer
    ap_total,       \* total_results of a 200 answer
    \* ---- connections of one call after another (ingest.py, search.py, embeddings.py) ----
    lk_kind,        \* the function called last
    lk_fault,       \* the step of that call that raised, or "none"
    lk_events,      \* what that call did to its connections and where it raised, in order
    lk_outcome,     \* "returned" or "raised"
    lk_initialized, \* _INDEX_TUNING["paper"]["initialized"]
    lk_calls,       \* calls made so far
    lk_leaked       \* connections earlier calls left open

getVars == <<attempt, delay, last_resp, get_requests, get_history, get_sleeps,
             get_result>>

iterVars == <<provider, it_pages, cursor, page_count, it_buf, it_idx, it_next,
              it_pc, it_requests, it_responses, it_yielded>>

dbVars == <<committed, txn, id_seqs>>

upVars == <<up_calls, up_last>>

ingVars == <<ing_works, ing_run, ing_outcome, ing_pc, ing_idx, ing_p, ing_todo,
             ing_author_ids, ing_paper_id, ing_count, ing_start, ing_snap>>

poolVars == <<pool_args, pool_pc, pool_ids, pool_workers, pool_task, pool_future,
              pool_raised, pool_results, pool_counts, pool_ddl>>

embVars == <<emb_store, emb_rows, emb_pc, emb_args, emb_ids, emb_texts, emb_i,
             emb_calls, emb_failed, emb_had, emb_runs, emb_ctx, emb_since,
             emb_deleted>>

ixVars == <<INDEX_TUNING, ix_rows, ix_lists, ix_pc, ix_kind, ix_local, ix_used,
            ix_searches, ix_tuned>>

searchVars == <<s_store, s_pc, s_req, s_papers, s_via, s_hybrid, s_sources, s_prev>>

entryVars == <<e_hits, e_pc, e_call, e_used, e_encoded, e_outcome>>

rowVars == <<pc_row, pc_given, pc_last, pc_count>>

connVars == <<cx_kind, cx_workers, cx_pc, cx_task, cx_users>>

encVars == <<en_ids, en_bs, en_i, en_pc, en_attempt, en_hist, en_j, en_txn,
             en_committed, en_log>>

wrVars == <<wr_schema, wr_table, wr_clock, wr_last>>

tnVars == <<tn_rows, tn_index, tn_runs, tn_last>>

absVars == <<abs_index, abs_pc, abs_text>>

pageVars == <<pg_store, pg_req, pg_pc, pg_first, pg_second, pg_whole>>

titleVars == <<tt_row, tt_last, tt_count>>

zcVars == <<zc_store, zc_pc, zc_req, zc_via, zc_hybrid, zc_queried>>

apiVars == <<ap_pc, ap_req, ap_calls, ap_returned, ap_status, ap_total>>

leakVars == <<lk_kind, lk_fault, lk_events, lk_outcome, lk_initialized, lk_calls, lk_leaked>>

vars == <<getVars, iterVars, dbVars, upVars, ingVars, poolVars, embVars, ixVars,
          searchVars, entryVars, rowVars, connVars, encVars, wrVars, tnVars,
          absVars,
          pageVars,
          titleVars,
          zcVars,
          apiVars,
          leakVars>>

\* Frames: a step of one subsystem leaves the others alone.
OnlyGet ==
    UNCHANGED <<iterVars, dbVars, upVars, ingVars, poolVars, embVars, ixVars, searchVars,
                entryVars, rowVars, connVars, encVars, wrVars, tnVars, absVars, pageVars, titleVars, zcVars, apiVars, leakVars>>
OnlyIter ==
    UNCHANGED <<getVars, dbVars, upVars, ingVars, poolVars, embVars, ixVars, searchVars,
                entryVars, rowVars, connVars, encVars, wrVars, tnVars, absVars, pageVars, titleVars, zcVars, apiVars, leakVars>>
OnlyUpsert ==
    UNCHANGED <<getVars, iterVars, ingVars, poolVars, embVars, ixVars, searchVars,
                entryVars, rowVars, connVars, encVars, wrVars, tnVars, absVars, pageVars, titleVars, zcVars, apiVars, leakVars>>
OnlyIngest ==
    UNCHANGED <<getVars, iterVars, upVars, poolVars, embVars, ixVars, searchVars,
                entryVars, rowVars, connVars, encVars, wrVars, tnVars, absVars, pageVars, titleVars, zcVars, apiVars, leakVars>>
OnlyPool ==
    UNCHANGED <<getVars, iterVars, upVars, ingVars, embVars, ixVars, searchVars,
                entryVars, rowVars, connVars, encVars, wrVars,
                tnVars, absVars, pageVars, titleVars, zcVars, apiVars, leakVars, txn, id_seqs>>
OnlyEmbed ==
    UNCHANGED <<getVars, iterVars, dbVars, upVars, ingVars, poolVars, ixVars, searchVars,
                entryVars, rowVars, connVars, encVars, wrVars, tnVars, absVars, pageVars, titleVars, zcVars, apiVars, leakVars>>
OnlyIndex ==
    UNCHANGED <<getVars, iterVars, dbVars, upVars, ingVars, poolVars, embVars, searchVars,
                entryVars, rowVars, connVars, encVars, wrVars, tnVars, absVars, pageVars, titleVars, zcVars, apiVars, leakVars>>
OnlySearch ==
    UNCHANGED <<getVars, iterVars, dbVars, upVars, ingVars, poolVars, embVars, ixVars,
                entryVars, rowVars, connVars, encVars, wrVars, tnVars, absVars, pageVars, titleVars, zcVars, apiVars, leakVars>>
OnlyEntry ==
    UNCHANGED <<getVars, iterVars, dbVars, upVars, ingVars, poolVars, embVars, ixVars,
                searchVars, rowVars, connVars, encVars, wrVars, tnVars, absVars, pageVars, titleVars, zcVars, apiVars, leakVars>>
OnlyRow ==
    UNCHANGED <<getVars, iterVars, dbVars, upVars, ingVars, poolVars, embVars, ixVars,
                searchVars, entryVars, connVars, encVars, wrVars, tnVars,
                absVars, pageVars, titleVars, zcVars, apiVars, leakVars>>
OnlyConn ==
    UNCHANGED <<getVars, iterVars, dbVars, upVars, ingVars, poolVars, embVars, ixVars,
                searchVars, entryVars, rowVars, encVars, wrVars, tnVars,
                absVars, pageVars, titleVars, zcVars, apiVars, leakVars>>
OnlyEnc ==
    UNCHANGED <<getVars, iterVars, dbVars, upVars, ingVars, poolVars, embVars, ixVars,
                searchVars, entryVars, rowVars, connVars, wrVars, tnVars, absVars, pageVars, titleVars, zcVars, apiVars, leakVars>>
OnlyWrite ==
    UNCHANGED <<getVars, iterVars, dbVars, upVars, ingVars, poolVars, embVars, ixVars,
                searchVars, entryVars, rowVars, connVars, encVars, tnVars, absVars, pageVars, titleVars, zcVars, apiVars, leakVars>>
OnlyTuner ==
    UNCHANGED <<getVars, iterVars, dbVars, upVars, ingVars, poolVars, embVars, ixVars,
                searchVars, entryVars, rowVars, connVars, encVars, wrVars, absVars, pageVars, titleVars, zcVars, apiVars, leakVars>>
OnlyAbstract ==
    UNCHANGED <<getVars, iterVars, dbVars, upVars, ingVars, poolVars, embVars, ixVars,
                searchVars, entryVars, rowVars, connVars, encVars, wrVars, tnVars,
                pageVars, titleVars, zcVars, apiVars, leakVars>>
OnlyPage ==
    UNCHANGED <<getVars, iterVars, dbVars, upVars, ingVars, poolVars, embVars, ixVars, searchVars, entryVars, rowVars, connVars, encVars, wrVars, tnVars, absVars,
                titleVars, zcVars, apiVars, leakVars>>
OnlyTitle ==
    UNCHANGED <<getVars, iterVars, dbVars, upVars, ingVars, poolVars, embVars, ixVars, searchVars, entryVars, rowVars, connVars, encVars, wrVars, tnVars, absVars, pageVars,
                zcVars, apiVars, leakVars>>
OnlyZc ==
    UNCHANGED <<getVars, iterVars, dbVars, upVars, ingVars, poolVars, embVars, ixVars, searchVars, entryVars, rowVars, connVars, encVars, wrVars, tnVars, absVars, pageVars, titleVars,
                apiVars, leakVars>>
OnlyApi ==
    UNCHANGED <<getVars, iterVars, dbVars, upVars, ingVars, poolVars, embVars, ixVars, searchVars, entryVars, rowVars, connVars, encVars, wrVars, tnVars, absVars, pageVars, titleVars, zcVars,
                leakVars>>
OnlyLeak ==
    UNCHANGED <<getVars, iterVars, dbVars, upVars, ingVars, poolVars, embVars, ixVars, searchVars, entryVars, rowVars, connVars, encVars, wrVars, tnVars, absVars, pageVars, titleVars, zcVars, apiVars>>

NULL == "NULL"

(***************************************************************************)
(* client.py: _get, the GET wrapper with retry and backoff                 *)
(***************************************************************************)
MAX_RETRIES == 5
BACKOFF_NUM == 3            \* BACKOFF_BASE = 1.5 = 3/2
BACKOFF_DEN == 2
INITIAL_DELAY == <<1, 1>>   \* 1.0 s

NoResp == <<>>

Running == [kind |-> "running", error |-> "none", status |-> NoResp]
Returned(status) == [kind |-> "returned", error |-> "none", status |-> <<status>>]
Raised(error, resp) == [kind |-> "raised", error |-> error, status |-> resp]

\* What one requests.get can produce: a status code or a transport exception.
Statuses == {200, 404, 429, 500, 503}

\* Retry-After header of a 429: absent, a number of seconds, or an HTTP date
\* that float() rejects.
RetryAfterHeaders == {"absent", "7", "date"}

\* Whether the JSON body of a non-error response parses.
Bodies == {"json", "malformed"}

\* requests.Response.raise_for_status raises for 4xx and 5xx.
RaisesForStatus(status) == status >= 400 /\ status < 600

IsServerError_any4xx(status) == 400 <= status /\ status < 600

\* `if 500 <= resp.status_code < 600`
IsServerError(status) == 500 <= status /\ status < 600

\* A status on which _get sleeps and tries again.
IsRetryStatus(status) == status = 429 \/ IsServerError(status)

LoopContinues_offByOne(a) == a <= MAX_RETRIES + 1

\* `for attempt in range(1, MAX_RETRIES + 1)`: the loop body runs for a.
LoopContinues(a) == a <= MAX_RETRIES

\* delay *= BACKOFF_BASE
Backoff(d) == <<d[1] * BACKOFF_NUM, d[2] * BACKOFF_DEN>>

\* The sleep of the 429 branch: float(Retry-After) when the header is present
\* and parses, else the current delay.
SleepFor429(header, d) == IF header = "7" THEN <<7, 1>> ELSE d

GetIdle ==
    /\ attempt = 1
    /\ delay = INITIAL_DELAY
    /\ last_resp = NoResp
    /\ get_requests = 0
    /\ get_history = <<>>
    /\ get_sleeps = <<>>
    /\ get_result = Running

\* requests.get raises (DNS, connection reset, timeout): the exception leaves
\* _get at once.
GetTransportError ==
    /\ OnlyGet
    /\ get_result.kind = "running"
    /\ LoopContinues(attempt)
    /\ get_requests' = get_requests + 1
    /\ get_result' = Raised("ConnectionError", NoResp)
    /\ UNCHANGED <<attempt, delay, last_resp, get_history, get_sleeps>>

\* One iteration of the loop: requests.get answers with a response.
GetRequest ==
    /\ OnlyGet
    /\ get_result.kind = "running"
    /\ LoopContinues(attempt)
    /\ get_requests' = get_requests + 1
    /\ \E status \in Statuses, header \in RetryAfterHeaders, body \in Bodies :
          /\ last_resp' = <<status>>
          /\ get_history' = Append(get_history, status)
          /\ IF status = 429
             THEN \* rate limited: sleep Retry-After or delay, then continue
                  /\ get_sleeps' = Append(get_sleeps, SleepFor429(header, delay))
                  /\ delay' = Backoff(delay)
                  /\ attempt' = attempt + 1
                  /\ UNCHANGED get_result
             ELSE IF IsServerError(status)
             THEN \* transient server error: sleep delay, then continue
                  /\ get_sleeps' = Append(get_sleeps, delay)
                  /\ delay' = Backoff(delay)
                  /\ attempt' = attempt + 1
                  /\ UNCHANGED get_result
             ELSE \* resp.raise_for_status(); return resp.json()
                  /\ get_result' =
                        IF RaisesForStatus(status)
                        THEN Raised("HTTPError", <<status>>)
                        ELSE IF body = "malformed"
                             THEN Raised("JSONDecodeError", <<status>>)
                             ELSE Returned(status)
                  /\ UNCHANGED <<attempt, delay, get_sleeps>>

\* After the loop: raise the last response's error.
GetExhausted ==
    /\ OnlyGet
    /\ get_result.kind = "running"
    /\ ~LoopContinues(attempt)
    /\ get_result' =
          IF last_resp = NoResp
          THEN Raised("RuntimeError", NoResp)
          ELSE IF RaisesForStatus(last_resp[1])
               THEN Raised("HTTPError", last_resp)
               ELSE Returned(last_resp[1])
    /\ UNCHANGED <<attempt, delay, last_resp, get_requests, get_history, get_sleeps>>

GetNext ==
    \/ GetTransportError
    \/ GetRequest
    \/ GetExhausted

(***************************************************************************)
(* client.py: iter_works_for_concept, the cursor-paginated generator       *)
(***************************************************************************)
MaxPages == 2       \* largest `pages` argument explored
MaxPerPage == 2     \* most works on one provider page
MaxWorks == 2       \* distinct works the provider knows

WorkIds == 1..MaxWorks
Cursors == {"*", "c1", "c2"}
NoPage == [results |-> <<>>, next_cursor |-> "unasked"]

SeqsUpTo(S, n) == UNION {[1..k -> S] : k \in 0..n}

\* Every page a provider may answer with: up to MaxPerPage works and a
\* next_cursor, which is absent (NULL) on the last page.
Pages == [results : SeqsUpTo(WorkIds, MaxPerPage),
          next_cursor : (Cursors \ {"*"}) \cup {NULL}]

IterIdle ==
    /\ provider = [c \in Cursors |-> NoPage]
    /\ it_pages = 0
    /\ cursor = "*"
    /\ page_count = 0
    /\ it_buf = <<>>
    /\ it_idx = 1
    /\ it_next = NULL
    /\ it_pc = "idle"
    /\ it_requests = <<>>
    /\ it_responses = <<>>
    /\ it_yielded = <<>>

\* The generator's locals at its first resumption: cursor = "*", page_count = 0.
IterBegin(pages) ==
    /\ it_pages' = pages
    /\ cursor' = "*"
    /\ page_count' = 0
    /\ it_buf' = <<>>
    /\ it_idx' = 1
    /\ it_next' = NULL
    /\ it_pc' = "loop"
    /\ it_requests' = <<>>
    /\ it_responses' = <<>>
    /\ it_yielded' = <<>>

NextPageCount_stuck(n) == n

\* page_count += 1
NextPageCount(n) == n + 1

\* `while page_count < pages` is false: the generator is exhausted.
DoIterLoopExit ==
    /\ it_pc = "loop"
    /\ ~(page_count < it_pages)
    /\ it_pc' = "done"
    /\ UNCHANGED <<provider, it_pages, cursor, page_count, it_buf, it_idx,
                   it_next, it_requests, it_responses, it_yielded>>

\* data = _get(url, params) raises: the exception leaves the generator.
DoIterFetchRaises ==
    /\ it_pc = "loop"
    /\ page_count < it_pages
    /\ it_requests' = Append(it_requests, cursor)
    /\ it_pc' = "raised"
    /\ UNCHANGED <<provider, it_pages, cursor, page_count, it_buf, it_idx,
                   it_next, it_responses, it_yielded>>

\* data = _get(url, params) returns a page; `if not results: break`.
DoIterFetch ==
    /\ it_pc = "loop"
    /\ page_count < it_pages
    /\ \E page \in Pages :
          /\ provider[cursor] \in {NoPage, page}
          /\ provider' = [provider EXCEPT ![cursor] = page]
          /\ it_requests' = Append(it_requests, cursor)
          /\ it_responses' = Append(it_responses, page)
          /\ it_buf' = page.results
          /\ it_next' = page.next_cursor
          /\ it_idx' = 1
          /\ it_pc' = IF page.results = <<>> THEN "done" ELSE "yield"
    /\ UNCHANGED <<it_pages, cursor, page_count, it_yielded>>

\* `for w in results: yield w`: one work reaches the consumer.
DoIterYield ==
    /\ it_pc = "yield"
    /\ it_yielded' = Append(it_yielded, it_buf[it_idx])
    /\ it_idx' = it_idx + 1
    /\ it_pc' = IF it_idx = Len(it_buf) THEN "advance" ELSE "yield"
    /\ UNCHANGED <<provider, it_pages, cursor, page_count, it_buf, it_next,
                   it_requests, it_responses>>

\* After the page's last work: cursor = next_cursor; `if not cursor: break`;
\* page_count += 1.
DoIterAdvance ==
    /\ it_pc = "advance"
    /\ cursor' = it_next
    /\ IF it_next = NULL
       THEN /\ it_pc' = "done"
            /\ UNCHANGED page_count
       ELSE /\ it_pc' = "loop"
            /\ page_count' = NextPageCount(page_count)
    /\ UNCHANGED <<provider, it_pages, it_buf, it_idx, it_next, it_requests,
                   it_responses, it_yielded>>

IterInit ==
    /\ provider = [c \in Cursors |-> NoPage]
    /\ it_pages \in 0..MaxPages
    /\ cursor = "*"
    /\ page_count = 0
    /\ it_buf = <<>>
    /\ it_idx = 1
    /\ it_next = NULL
    /\ it_pc = "loop"
    /\ it_requests = <<>>
    /\ it_responses = <<>>
    /\ it_yielded = <<>>

IterLoopExit == DoIterLoopExit /\ OnlyIter
IterFetchRaises == DoIterFetchRaises /\ OnlyIter
IterFetch == DoIterFetch /\ OnlyIter
IterYield == DoIterYield /\ OnlyIter
IterAdvance == DoIterAdvance /\ OnlyIter

IterNext ==
    \/ IterLoopExit
    \/ IterFetchRaises
    \/ IterFetch
    \/ IterYield
    \/ IterAdvance

(***************************************************************************)
(* The store as db_writer.py sees it through one connection.  A table is   *)
(* a set of rows; ids come from sequences, which Postgres never rolls back *)
(* and which INSERT ... ON CONFLICT consumes also when the row conflicts.  *)
(***************************************************************************)
Namespaces == {"openalex", "pmid"}

Truthy(x) == x # NULL /\ x # ""

EmptyDb == [papers |-> {}, authors |-> {}, concepts |-> {},
            paper_authors |-> {}, ingested |-> {}]

NoSeqs == [papers |-> 0, authors |-> 0]

\* Postgres jsonb `a || b`: the keys of b are added to a, b winning.
JsonMerge(a, b) == [n \in Namespaces |-> IF b[n] # NULL THEN b[n] ELSE a[n]]

\* COALESCE(new, old)
Coalesce(new, old) == IF new # NULL THEN new ELSE old

PapersByDoi(db, doi) == {r \in db.papers : r.doi # NULL /\ r.doi = doi}

PapersByOpenalex(db, oa) == {r \in db.papers : r.external_ids["openalex"] = oa}

ReplaceRow(rows, old, new) == (rows \ {old}) \cup {new}

\* The row of a plain INSERT INTO papers (...) VALUES (...).
PaperRow(id, p, venue_id, venue_instance_id) ==
    [id |-> id, doi |-> p.doi, external_ids |-> p.external_ids,
     venue_id |-> venue_id, venue_instance_id |-> venue_instance_id,
     meta |-> p.meta, concepts |-> p.concepts]

\* INSERT INTO papers ... ON CONFLICT (doi) DO UPDATE SET <every column but
\* id and doi> = EXCLUDED.<column>.
InsertPaperOnConflictDoi(db, id, p, venue_id, venue_instance_id) ==
    LET hit == PapersByDoi(db, p.doi) IN
    IF hit = {}
    THEN [db EXCEPT !.papers = @ \cup {PaperRow(id, p, venue_id, venue_instance_id)}]
    ELSE LET old == CHOOSE r \in hit : TRUE IN
         [db EXCEPT !.papers =
             ReplaceRow(@, old, PaperRow(old.id, p, venue_id, venue_instance_id))]

\* UPDATE papers SET venue_id = COALESCE(%s, venue_id), venue_instance_id =
\* COALESCE(%s, venue_instance_id), external_ids = external_ids || %s
\* WHERE id = pid.
LinkAndMergePaper(db, pid, p, venue_id, venue_instance_id) ==
    LET old == CHOOSE r \in db.papers : r.id = pid IN
    [db EXCEPT !.papers =
        ReplaceRow(@, old,
            [old EXCEPT !.venue_id = Coalesce(venue_id, @),
                        !.venue_instance_id = Coalesce(venue_instance_id, @),
                        !.external_ids = JsonMerge(@, p.external_ids)])]

\* `if doi:` the DOI branch of upsert_paper is taken.
TakesDoiBranch(p) == Truthy(p.doi)

\* upsert_paper(cur, p, venue_id, venue_instance_id): every outcome
\* [db, seqs, id] the call can have.  SELECT ... WHERE external_ids ->>
\* 'openalex' = oa has no ORDER BY: with several matching rows fetchone()
\* returns any of them.
UpsertPaper(db, seqs, p, venue_id, venue_instance_id) ==
    LET oa == p.external_ids["openalex"]
        fresh == seqs.papers + 1
        burnt == [seqs EXCEPT !.papers = fresh]
    IN
    IF TakesDoiBranch(p)
    THEN LET db1 == InsertPaperOnConflictDoi(db, fresh, p, venue_id, venue_instance_id)
             row == CHOOSE r \in PapersByDoi(db1, p.doi) : TRUE
         IN {[db |-> LinkAndMergePaper(db1, row.id, p, venue_id, venue_instance_id),
              seqs |-> burnt, id |-> row.id]}
    ELSE IF Truthy(oa) /\ PapersByOpenalex(db, oa) # {}
    THEN {[db |-> LinkAndMergePaper(db, r.id, p, venue_id, venue_instance_id),
           seqs |-> seqs, id |-> r.id] : r \in PapersByOpenalex(db, oa)}
    ELSE {[db |-> [db EXCEPT !.papers =
                      @ \cup {PaperRow(fresh, p, venue_id, venue_instance_id)}],
           seqs |-> burnt, id |-> fresh]}

AuthorsByOpenalex(db, oa) == {r \in db.authors : r.external_ids["openalex"] = oa}

AuthorsByOrcid(db, orcid) == {r \in db.authors : r.orcid # NULL /\ r.orcid = orcid}

AuthorRow(id, a) ==
    [id |-> id, full_name |-> a.full_name, orcid |-> a.orcid,
     external_ids |-> a.external_ids]

\* upsert_author(cur, author): reuse the row found by openalex id, else
\* INSERT ... ON CONFLICT (orcid) DO UPDATE.
UpsertAuthor(db, seqs, a) ==
    LET oa == a.external_ids["openalex"]
        fresh == seqs.authors + 1
        burnt == [seqs EXCEPT !.authors = fresh]
        hit == AuthorsByOrcid(db, a.orcid)
    IN
    IF Truthy(oa) /\ AuthorsByOpenalex(db, oa) # {}
    THEN {[db |-> db, seqs |-> seqs, id |-> r.id] : r \in AuthorsByOpenalex(db, oa)}
    ELSE IF a.orcid # NULL /\ hit # {}
    THEN LET old == CHOOSE r \in hit : TRUE IN
         {[db |-> [db EXCEPT !.authors = ReplaceRow(@, old, AuthorRow(old.id, a))],
           seqs |-> burnt, id |-> old.id]}
    ELSE {[db |-> [db EXCEPT !.authors = @ \cup {AuthorRow(fresh, a)}],
           seqs |-> burnt, id |-> fresh]}

ConceptsById(db, cid) == {r \in db.concepts : r.id = cid}

\* upsert_concept(cur, concept_id, name, level): an existing row is returned
\* as it is; only a missing one is inserted.
UpsertConcept(db, cid, name, level) ==
    IF ConceptsById(db, cid) # {}
    THEN db
    ELSE [db EXCEPT !.concepts = @ \cup {[id |-> cid, name |-> name, level |-> level]}]

\* One INSERT INTO paper_authors ... ON CONFLICT (paper_id, author_id) DO
\* UPDATE SET author_order, is_corresponding.
UpsertPaperAuthor(db, paper_id, author_id, order, corr) ==
    LET row == [paper_id |-> paper_id, author_id |-> author_id,
                author_order |-> order, is_corresponding |-> corr]
        hit == {r \in db.paper_authors :
                    r.paper_id = paper_id /\ r.author_id = author_id}
    IN [db EXCEPT !.paper_authors = (@ \ hit) \cup {row}]

\* insert_paper_authors(cur, paper_id, p, author_ids): the loop over
\* p.authors, from position idx on.
RECURSIVE InsertPaperAuthorsFrom(_, _, _, _, _)
InsertPaperAuthorsFrom(db, paper_id, p, author_ids, idx) ==
    IF idx > Len(p.authors) THEN db
    ELSE LET order == IF idx <= Len(p.author_order) THEN p.author_order[idx] ELSE idx
             corr == IF idx <= Len(p.is_corresponding_flags)
                     THEN p.is_corresponding_flags[idx] ELSE FALSE
         IN InsertPaperAuthorsFrom(
                UpsertPaperAuthor(db, paper_id, author_ids[idx], order, corr),
                paper_id, p, author_ids, idx + 1)

InsertPaperAuthors(db, paper_id, p, author_ids) ==
    InsertPaperAuthorsFrom(db, paper_id, p, author_ids, 1)

\* mark_openalex_concept_ingested(cur, concept_id, pages): upsert of the
\* cursor row (CREATE TABLE IF NOT EXISTS changes no row).
MarkConceptIngested(db, concept_id, pages) ==
    LET hit == {r \in db.ingested : r.concept_id = concept_id} IN
    [db EXCEPT !.ingested =
        (@ \ hit) \cup {[concept_id |-> concept_id, pages_ingested |-> pages]}]

(***************************************************************************)
(* A caller that applies db_writer's upserts to arbitrary normalized       *)
(* records on one connection.                                              *)
(***************************************************************************)
MaxUpserts == 2     \* upsert calls explored

Dois == {"D1", "D2"}
OpenalexIds == {"W1", "W2"}
Venues == {<<NULL, NULL>>, <<"V1", "I1">>, <<"V2", "I2">>}
Metas == {"t1", "t2"}

ExternalIds(oas, others) ==
    {[n \in Namespaces |-> IF n = "openalex" THEN oa ELSE x] :
        oa \in oas, x \in others}

\* The NormalizedPaper values handed to upsert_paper.
PaperInputs ==
    [doi : Dois \cup {NULL},
     external_ids : ExternalIds(OpenalexIds \cup {NULL}, {NULL, "M1"}),
     meta : Metas, concepts : {{}},
     authors : {<<>>}, author_order : {<<>>}, is_corresponding_flags : {<<>>}]

AuthorInputs ==
    [full_name : Metas, orcid : {NULL, "O1"},
     external_ids : ExternalIds({"A1", "A2"}, {NULL})]

ConceptInputs == [id : {"C1", "C2"}, name : Metas, level : {0}]

DbIdle ==
    /\ committed = EmptyDb
    /\ txn = EmptyDb
    /\ id_seqs = NoSeqs

UpIdle ==
    /\ up_calls = 0
    /\ up_last = [op |-> "none"]

CallUpsertPaper ==
    /\ OnlyUpsert
    /\ up_calls < MaxUpserts
    /\ \E p \in PaperInputs, v \in Venues :
         \E o \in UpsertPaper(txn, id_seqs, p, v[1], v[2]) :
            /\ txn' = o.db
            /\ id_seqs' = o.seqs
            /\ up_last' = [op |-> "paper", arg |-> p, venue |-> v, id |-> o.id,
                           before |-> txn]
    /\ up_calls' = up_calls + 1
    /\ UNCHANGED committed

CallUpsertAuthor ==
    /\ OnlyUpsert
    /\ up_calls < MaxUpserts
    /\ \E a \in AuthorInputs :
         \E o \in UpsertAuthor(txn, id_seqs, a) :
            /\ txn' = o.db
            /\ id_seqs' = o.seqs
            /\ up_last' = [op |-> "author", arg |-> a, id |-> o.id, before |-> txn]
    /\ up_calls' = up_calls + 1
    /\ UNCHANGED committed

CallUpsertConcept ==
    /\ OnlyUpsert
    /\ up_calls < MaxUpserts
    /\ \E c \in ConceptInputs :
            /\ txn' = UpsertConcept(txn, c.id, c.name, c.level)
            /\ up_last' = [op |-> "concept", arg |-> c, id |-> c.id, before |-> txn]
    /\ up_calls' = up_calls + 1
    /\ UNCHANGED <<committed, id_seqs>>

UpsertNext ==
    \/ CallUpsertPaper
    \/ CallUpsertAuthor
    \/ CallUpsertConcept

(***************************************************************************)
(* ingest.py: ingest_openalex_concept, one concept-ingestion task.  The    *)
(* generator iter_works_for_concept is seen from the for loop: it yields   *)
(* the provider's works one by one or raises.  The call at line 143 passes *)
(* no venue: the paper is written with venue_id and venue_instance_id      *)
(* NULL; a call that raises instead is a failure at that statement.        *)
(***************************************************************************)
MaxIngestWorks == 2     \* works the provider holds for the concept
MaxAuthorships == 2     \* authorships of one work
MaxRuns == 2            \* runs of the task

IngestConcept == "C1"
IngestPages == 1

\* The author objects of the provider: an OpenAlex author id and an ORCID.
AuthorPool ==
    {[id |-> "A1", orcid |-> "O1", display_name |-> "n"],
     [id |-> "A2", orcid |-> "O1", display_name |-> "n"],
     [id |-> "A1", orcid |-> NULL, display_name |-> "n"]}

\* The provider's works, reduced to the fields the writers read.
ProviderWorks ==
    [id : {"W1", "W2"}, doi : {NULL, "D1"}, title : {"t1"},
     authorships : SeqsUpTo(AuthorPool, MaxAuthorships),
     concepts : {{}, {[id |-> "C1", score |-> 1], [id |-> "C2", score |-> 0]}}]

NoPaper == [doi |-> NULL]
NoSnap == [papers |-> -1]

\* normalize_openalex_work: concepts with a positive score, authors with a
\* name, author_order the 1-based positions, external_ids the work id.
NormalizeWork(w) ==
    [doi |-> w.doi,
     external_ids |-> [n \in Namespaces |-> IF n = "openalex" THEN w.id ELSE NULL],
     meta |-> w.title,
     concepts |-> {c.id : c \in {x \in w.concepts : x.score > 0}},
     authors |-> [i \in 1..Len(w.authorships) |->
                     [full_name |-> w.authorships[i].display_name,
                      orcid |-> w.authorships[i].orcid,
                      external_ids |-> [n \in Namespaces |->
                          IF n = "openalex" THEN w.authorships[i].id ELSE NULL]]],
     author_order |-> [i \in 1..Len(w.authorships) |-> i],
     is_corresponding_flags |-> [i \in 1..Len(w.authorships) |-> FALSE]]

Counts(db) ==
    [papers |-> Cardinality(db.papers), authors |-> Cardinality(db.authors),
     concepts |-> Cardinality(db.concepts),
     paper_authors |-> Cardinality(db.paper_authors),
     ingested |-> Cardinality(db.ingested)]

\* conn.rollback() in the except clause: what is durable afterwards, given
\* the committed tables and the tables as the transaction saw them.
Rollback_keepsWrites(db_committed, db_txn) == db_txn

Rollback(db_committed, db_txn) == db_committed

\* Where the body goes after normalizing p / after the concepts / authors.
PcAfterConcepts(p) == IF Len(p.authors) > 0 THEN "authors" ELSE "paper"

PcAfterNormalize(p) == IF p.concepts # {} THEN "concepts" ELSE PcAfterConcepts(p)

IngIdle ==
    /\ ing_works = <<>>
    /\ ing_run = 0
    /\ ing_outcome = "idle"
    /\ ing_pc = "for"
    /\ ing_idx = 0
    /\ ing_p = NoPaper
    /\ ing_todo = {}
    /\ ing_author_ids = <<>>
    /\ ing_paper_id = 0
    /\ ing_count = 0
    /\ ing_start = [db |-> EmptyDb, seqs |-> NoSeqs]
    /\ ing_snap = NoSnap

\* Work ids are interchangeable: the first work is named W1.
IngestInit ==
    /\ ing_works \in {ws \in SeqsUpTo(ProviderWorks, MaxIngestWorks) :
                         Len(ws) > 0 => ws[1].id = "W1"}
    /\ ing_run = 0
    /\ ing_outcome = "idle"
    /\ ing_pc = "for"
    /\ ing_idx = 0
    /\ ing_p = NoPaper
    /\ ing_todo = {}
    /\ ing_author_ids = <<>>
    /\ ing_paper_id = 0
    /\ ing_count = 0
    /\ ing_start = [db |-> EmptyDb, seqs |-> NoSeqs]
    /\ ing_snap = NoSnap

Working == ing_outcome = "running"

\* get_conn(), conn.cursor(), conn.commit(), count = 0: a run begins.  A
\* second run begins once the first has completed.
IngestStart ==
    /\ OnlyIngest
    /\ ing_outcome \in {"idle", "ok"}
    /\ ing_run < MaxRuns
    /\ ing_run' = ing_run + 1
    /\ ing_outcome' = "running"
    /\ ing_pc' = "for"
    /\ ing_idx' = 0
    /\ ing_count' = 0
    /\ ing_p' = NoPaper
    /\ ing_todo' = {}
    /\ ing_author_ids' = <<>>
    /\ ing_paper_id' = 0
    /\ ing_start' = [db |-> committed, seqs |-> id_seqs]
    /\ txn' = committed
    /\ UNCHANGED <<committed, id_seqs, ing_works, ing_snap>>

\* for work in iter_works_for_concept(...): p = normalize_openalex_work(work)
IngestNextWork ==
    /\ OnlyIngest
    /\ Working /\ ing_pc = "for"
    /\ ing_idx < Len(ing_works)
    /\ LET p == NormalizeWork(ing_works[ing_idx + 1]) IN
        /\ ing_p' = p
        /\ ing_todo' = p.concepts
        /\ ing_pc' = PcAfterNormalize(p)
    /\ ing_idx' = ing_idx + 1
    /\ ing_author_ids' = <<>>
    /\ UNCHANGED <<dbVars, ing_works, ing_run, ing_outcome, ing_paper_id,
                   ing_count, ing_start, ing_snap>>

\* upsert_concept(cur, cid, info["name"], info["level"]) for one concept of p
IngestUpsertConcept ==
    /\ OnlyIngest
    /\ Working /\ ing_pc = "concepts"
    /\ \E cid \in ing_todo :
        /\ txn' = UpsertConcept(txn, cid, "n", 0)
        /\ ing_todo' = ing_todo \ {cid}
        /\ ing_pc' = IF ing_todo = {cid} THEN PcAfterConcepts(ing_p) ELSE "concepts"
    /\ UNCHANGED <<committed, id_seqs, ing_works, ing_run, ing_outcome, ing_idx,
                   ing_p, ing_author_ids, ing_paper_id, ing_count, ing_start,
                   ing_snap>>

\* author_ids = [upsert_author(cur, a) for a in p.authors], one author
IngestUpsertAuthor ==
    /\ OnlyIngest
    /\ Working /\ ing_pc = "authors"
    /\ LET i == Len(ing_author_ids) + 1 IN
        /\ \E o \in UpsertAuthor(txn, id_seqs, ing_p.authors[i]) :
            /\ txn' = o.db
            /\ id_seqs' = o.seqs
            /\ ing_author_ids' = Append(ing_author_ids, o.id)
        /\ ing_pc' = IF i = Len(ing_p.authors) THEN "paper" ELSE "authors"
    /\ UNCHANGED <<committed, ing_works, ing_run, ing_outcome, ing_idx, ing_p,
                   ing_todo, ing_paper_id, ing_count, ing_start, ing_snap>>

\* paper_id = upsert_paper(cur, p)
IngestUpsertPaper ==
    /\ OnlyIngest
    /\ Working /\ ing_pc = "paper"
    /\ \E o \in UpsertPaper(txn, id_seqs, ing_p, NULL, NULL) :
        /\ txn' = o.db
        /\ id_seqs' = o.seqs
        /\ ing_paper_id' = o.id
    /\ ing_pc' = "links"
    /\ UNCHANGED <<committed, ing_works, ing_run, ing_outcome, ing_idx, ing_p,
                   ing_todo, ing_author_ids, ing_count, ing_start, ing_snap>>

\* insert_paper_authors(cur, paper_id, p, author_ids)
IngestInsertPaperAuthors ==
    /\ OnlyIngest
    /\ Working /\ ing_pc = "links"
    /\ txn' = InsertPaperAuthors(txn, ing_paper_id, ing_p, ing_author_ids)
    /\ ing_pc' = "commit"
    /\ UNCHANGED <<committed, id_seqs, ing_works, ing_run, ing_outcome, ing_idx,
                   ing_p, ing_todo, ing_author_ids, ing_paper_id, ing_count,
                   ing_start, ing_snap>>

\* conn.commit(); count += 1
IngestCommitWork ==
    /\ OnlyIngest
    /\ Working /\ ing_pc = "commit"
    /\ committed' = txn
    /\ ing_count' = ing_count + 1
    /\ ing_pc' = "for"
    /\ UNCHANGED <<txn, id_seqs, ing_works, ing_run, ing_outcome, ing_idx, ing_p,
                   ing_todo, ing_author_ids, ing_paper_id, ing_start, ing_snap>>

\* The for loop ends when iter_works_for_concept has yielded its last work
GeneratorExhausted_always(idx, works) == TRUE

GeneratorExhausted(idx, works) == idx = Len(works)

\* The generator is exhausted: mark_openalex_concept_ingested(cur, ...)
IngestMark ==
    /\ OnlyIngest
    /\ Working /\ ing_pc = "for"
    /\ GeneratorExhausted(ing_idx, ing_works)
    /\ txn' = MarkConceptIngested(txn, IngestConcept, IngestPages)
    /\ ing_pc' = "mark"
    /\ UNCHANGED <<committed, id_seqs, ing_works, ing_run, ing_outcome, ing_idx,
                   ing_p, ing_todo, ing_author_ids, ing_paper_id, ing_count,
                   ing_start, ing_snap>>

\* conn.commit() after the mark; the run completes.
IngestCommitMark ==
    /\ OnlyIngest
    /\ Working /\ ing_pc = "mark"
    /\ committed' = txn
    /\ ing_outcome' = "ok"
    /\ ing_snap' = IF ing_snap = NoSnap THEN Counts(txn) ELSE ing_snap
    /\ UNCHANGED <<txn, id_seqs, ing_works, ing_run, ing_pc, ing_idx, ing_p,
                   ing_todo, ing_author_ids, ing_paper_id, ing_count, ing_start>>

\* Any statement of the try block raises (the generator's _get, the
\* normalizer, a writer): except Exception: conn.rollback(); raise.
IngestFail ==
    /\ OnlyIngest
    /\ Working
    /\ committed' = Rollback(committed, txn)
    /\ txn' = Rollback(committed, txn)
    /\ ing_outcome' = "failed"
    /\ UNCHANGED <<id_seqs, ing_works, ing_run, ing_pc, ing_idx, ing_p, ing_todo,
                   ing_author_ids, ing_paper_id, ing_count, ing_start, ing_snap>>

\* The process dies: the server aborts the open transaction.
IngestCrash ==
    /\ OnlyIngest
    /\ Working
    /\ txn' = committed
    /\ ing_outcome' = "crashed"
    /\ UNCHANGED <<committed, id_seqs, ing_works, ing_run, ing_pc, ing_idx, ing_p,
                   ing_todo, ing_author_ids, ing_paper_id, ing_count, ing_start,
                   ing_snap>>

IngestNext ==
    \/ IngestStart
    \/ IngestNextWork
    \/ IngestUpsertConcept
    \/ IngestUpsertAuthor
    \/ IngestUpsertPaper
    \/ IngestInsertPaperAuthors
    \/ IngestCommitWork
    \/ IngestMark
    \/ IngestCommitMark
    \/ IngestFail
    \/ IngestCrash

\* The loop body applied to one work in one piece: every [db, seqs] it can
\* leave behind.
RECURSIVE UpsertConceptsAll(_, _)
UpsertConceptsAll(db, cids) ==
    IF cids = {} THEN db
    ELSE LET cid == CHOOSE c \in cids : TRUE IN
         UpsertConceptsAll(UpsertConcept(db, cid, "n", 0), cids \ {cid})

RECURSIVE UpsertAuthorsFrom(_, _, _)
UpsertAuthorsFrom(outs, p, i) ==
    IF i > Len(p.authors) THEN outs
    ELSE UpsertAuthorsFrom(
            UNION {{[db |-> o.db, seqs |-> o.seqs, ids |-> Append(s.ids, o.id)] :
                        o \in UpsertAuthor(s.db, s.seqs, p.authors[i])} : s \in outs},
            p, i + 1)

IngestWork(s, w) ==
    LET p == NormalizeWork(w)
        db1 == UpsertConceptsAll(s.db, p.concepts)
        as == UpsertAuthorsFrom({[db |-> db1, seqs |-> s.seqs, ids |-> <<>>]}, p, 1)
    IN UNION {{[db |-> InsertPaperAuthors(o.db, o.id, p, a.ids), seqs |-> o.seqs] :
                    o \in UpsertPaper(a.db, a.seqs, p, NULL, NULL)} : a \in as}

\* The first n works of the loop, each applied in one piece.
RECURSIVE IngestWorks(_, _, _)
IngestWorks(s, works, n) ==
    IF n = 0 THEN {s}
    ELSE UNION {IngestWork(x, works[n]) : x \in IngestWorks(s, works, n - 1)}

(***************************************************************************)
(* ingest.py: ingest_openalex_concepts, one task per concept id on a       *)
(* ThreadPoolExecutor.  A task is seen through its outcome: it completes   *)
(* (and has committed its mark) or it raises an Exception.                 *)
(***************************************************************************)
MaxConceptIds == 3      \* length of the argument concept_ids
MaxPoolWorkers == 2     \* the argument max_workers

PoolConcepts == {"C1", "C2", "C3"}

\* list(dict.fromkeys(concept_ids)): duplicates dropped, first occurrences kept
RECURSIVE Dedup(_)
Dedup(ids) ==
    IF ids = <<>> THEN <<>>
    ELSE LET front == Dedup(SubSeq(ids, 1, Len(ids) - 1))
             x == ids[Len(ids)]
         IN IF \E i \in 1..Len(front) : front[i] = x THEN front ELSE Append(front, x)

Without_keepsAll(ids, existing) == ids

\* [cid for cid in concept_ids if cid not in existing]
RECURSIVE Without(_, _)
Without(ids, existing) ==
    IF ids = <<>> THEN <<>>
    ELSE LET rest == Without(Tail(ids), existing) IN
         IF Head(ids) \in existing THEN rest ELSE <<Head(ids)>> \o rest

\* get_existing_openalex_concepts(concept_ids)
ExistingConcepts(db, ids) ==
    {r.concept_id : r \in {x \in db.ingested :
                              \E i \in 1..Len(ids) : ids[i] = x.concept_id}}

Min(a, b) == IF a < b THEN a ELSE b

\* worker(cid): (cid, True, None), or (cid, False, str(e)) when the task raised
WorkerReturn_alwaysOk(cid, raised) == [cid |-> cid, ok |-> TRUE]

WorkerReturn(cid, raised) == [cid |-> cid, ok |-> ~raised]

\* sum(1 for _, ok, _ in results if ok)
SuccessCount(results) == Cardinality({i \in 1..Len(results) : results[i].ok})

NoFuture == [cid |-> NULL, ok |-> FALSE]

\* The executions of ensure_openalex_tracking_table: up_front by
\* ensure_openalex_tracking_table_global, caller by
\* get_existing_openalex_concepts on the calling thread, workers by
\* mark_openalex_concept_ingested inside the tasks of these concept ids.
NoDdl == [up_front |-> 0, caller |-> 0, workers |-> {}]

PoolIdle ==
    /\ pool_args = [concept_ids |-> <<>>, max_workers |-> 1, skip_existing |-> FALSE]
    /\ pool_pc = "idle"
    /\ pool_ids = <<>>
    /\ pool_workers = 0
    /\ pool_task = [c \in PoolConcepts |-> "none"]
    /\ pool_future = [c \in PoolConcepts |-> NoFuture]
    /\ pool_raised = {}
    /\ pool_results = <<>>
    /\ pool_counts = <<0, 0>>
    /\ pool_ddl = NoDdl

PoolInit ==
    /\ pool_args \in [concept_ids : SeqsUpTo(PoolConcepts, MaxConceptIds),
                      max_workers : 1..MaxPoolWorkers,
                      skip_existing : BOOLEAN]
    /\ pool_pc = "idle"
    /\ pool_ids = <<>>
    /\ pool_workers = 0
    /\ pool_task = [c \in PoolConcepts |-> "none"]
    /\ pool_future = [c \in PoolConcepts |-> NoFuture]
    /\ pool_raised = {}
    /\ pool_results = <<>>
    /\ pool_counts = <<0, 0>>
    /\ pool_ddl = NoDdl

\* The store before the call: some concepts may have been ingested already.
PoolDbInit ==
    /\ \E done \in SUBSET PoolConcepts :
         committed = [EmptyDb EXCEPT !.ingested =
                         {[concept_id |-> c, pages_ingested |-> IngestPages] : c \in done}]
    /\ txn = committed
    /\ id_seqs = NoSeqs

\* Lines 187-234: the early returns, the deduplication, the filter, the
\* pool size and the submission of every remaining concept id.
PoolCall ==
    /\ OnlyPool
    /\ pool_pc = "idle"
    /\ LET unique == Dedup(pool_args.concept_ids)
           ids == IF pool_args.skip_existing
                  THEN Without(unique, ExistingConcepts(committed, unique))
                  ELSE unique
       IN IF ids = <<>>
          THEN /\ pool_pc' = "returned"
               /\ UNCHANGED <<pool_ids, pool_workers, pool_task>>
          ELSE /\ pool_pc' = "running"
               /\ pool_ids' = ids
               /\ pool_workers' = Min(Len(ids), pool_args.max_workers)
               /\ pool_task' = [c \in DOMAIN pool_task |->
                                   IF \E i \in 1..Len(ids) : ids[i] = c
                                   THEN "queued" ELSE "none"]
    /\ pool_ddl' = [pool_ddl EXCEPT !.up_front = @ + 1,
                                    !.caller = IF pool_args.skip_existing THEN @ + 1 ELSE @]
    /\ UNCHANGED <<committed, pool_args, pool_future, pool_raised, pool_results,
                   pool_counts>>

\* A free pool thread takes a queued task.
PoolTaskStart ==
    /\ OnlyPool
    /\ pool_pc = "running"
    /\ Cardinality({c \in DOMAIN pool_task : pool_task[c] \in {"running", "marking"}})
            < pool_workers
    /\ \E c \in DOMAIN pool_task :
        /\ pool_task[c] = "queued"
        /\ pool_task' = [pool_task EXCEPT ![c] = "running"]
    /\ UNCHANGED <<committed, pool_args, pool_pc, pool_ids, pool_workers,
                   pool_future, pool_raised, pool_results, pool_counts, pool_ddl>>

\* The works of the task are written and committed; the task calls
\* mark_openalex_concept_ingested, which begins with
\* ensure_openalex_tracking_table(cur) on the task's connection.
PoolTaskMark ==
    /\ OnlyPool
    /\ pool_pc = "running"
    /\ \E c \in DOMAIN pool_task :
        /\ pool_task[c] = "running"
        /\ pool_task' = [pool_task EXCEPT ![c] = "marking"]
        /\ pool_ddl' = [pool_ddl EXCEPT !.workers = @ \cup {c}]
    /\ UNCHANGED <<committed, pool_args, pool_pc, pool_ids, pool_workers,
                   pool_future, pool_raised, pool_results, pool_counts>>

\* The cursor row is upserted and committed:
\* ingest_openalex_concept(cid, ...) completes: return cid, True, None
PoolTaskCompletes ==
    /\ OnlyPool
    /\ pool_pc = "running"
    /\ \E c \in DOMAIN pool_task :
        /\ pool_task[c] = "marking"
        /\ committed' = MarkConceptIngested(committed, c, IngestPages)
        /\ pool_task' = [pool_task EXCEPT ![c] = "finished"]
        /\ pool_future' = [pool_future EXCEPT ![c] = WorkerReturn(c, FALSE)]
    /\ UNCHANGED <<pool_args, pool_pc, pool_ids, pool_workers, pool_raised,
                   pool_results, pool_counts, pool_ddl>>

\* ingest_openalex_concept(cid, ...) raises: except Exception as e:
\* return cid, False, str(e)
PoolTaskRaises ==
    /\ OnlyPool
    /\ pool_pc = "running"
    /\ \E c \in DOMAIN pool_task :
        /\ pool_task[c] \in {"running", "marking"}
        /\ pool_task' = [pool_task EXCEPT ![c] = "finished"]
        /\ pool_future' = [pool_future EXCEPT ![c] = WorkerReturn(c, TRUE)]
        /\ pool_raised' = pool_raised \cup {c}
    /\ UNCHANGED <<committed, pool_args, pool_pc, pool_ids, pool_workers,
                   pool_results, pool_counts, pool_ddl>>

\* for future in as_completed(future_map): results.append(future.result())
PoolCollect ==
    /\ OnlyPool
    /\ pool_pc = "running"
    /\ \E c \in DOMAIN pool_task :
        /\ pool_task[c] = "finished"
        /\ pool_task' = [pool_task EXCEPT ![c] = "collected"]
        /\ pool_results' = Append(pool_results, pool_future[c])
    /\ UNCHANGED <<committed, pool_args, pool_pc, pool_ids, pool_workers,
                   pool_future, pool_raised, pool_counts, pool_ddl>>

\* as_completed is exhausted, the executor has shut down: the summary
PoolSummary ==
    /\ OnlyPool
    /\ pool_pc = "running"
    /\ \A c \in DOMAIN pool_task : pool_task[c] \in {"none", "collected"}
    /\ pool_counts' = <<SuccessCount(pool_results),
                        Len(pool_results) - SuccessCount(pool_results)>>
    /\ pool_pc' = "done"
    /\ UNCHANGED <<committed, pool_args, pool_ids, pool_workers, pool_task,
                   pool_future, pool_raised, pool_results, pool_ddl>>

\* A call with nine distinct concept ids, none ingested, and a max_workers
\* of 8, 9 or 16.
WideConcepts == {"C1", "C2", "C3", "C4", "C5", "C6", "C7", "C8", "C9"}

WideConceptIds == <<"C1", "C2", "C3", "C4", "C5", "C6", "C7", "C8", "C9">>

WidePoolInit ==
    /\ pool_args \in [concept_ids : {WideConceptIds},
                      max_workers : {8, 9, 16},
                      skip_existing : {FALSE}]
    /\ pool_pc = "idle"
    /\ pool_ids = <<>>
    /\ pool_workers = 0
    /\ pool_task = [c \in WideConcepts |-> "none"]
    /\ pool_future = [c \in WideConcepts |-> NoFuture]
    /\ pool_raised = {}
    /\ pool_results = <<>>
    /\ pool_counts = <<0, 0>>
    /\ pool_ddl = NoDdl

PoolNext ==
    \/ PoolCall
    \/ PoolTaskStart
    \/ PoolTaskMark
    \/ PoolTaskCompletes
    \/ PoolTaskRaises
    \/ PoolCollect
    \/ PoolSummary

(***************************************************************************)
(* embeddings.py: embed_missing_papers through _embed_missing_entities.    *)
(* The paper_embeddings table is the set of its keys (paper_id,            *)
(* model_name); the vectors play no part in what is selected.              *)
(***************************************************************************)
MaxEntities == 3        \* papers in the store
MaxBatchSize == 2       \* argument batch_size
MaxEmbedRuns == 3       \* runs of embed_missing_papers

SEMANTIC_SEARCH_MODEL_NAME == "L"
OtherModelName == "L2"

EntityIds == 1..MaxEntities

PaperTexts ==
    {[title |-> NULL, abstract |-> NULL, conclusion |-> NULL],
     [title |-> "", abstract |-> NULL, conclusion |-> NULL],
     [title |-> "t", abstract |-> NULL, conclusion |-> NULL],
     [title |-> "t", abstract |-> "a", conclusion |-> "c"]}

\* None as a text and as a limit
NoText == <<>>
NoLimit == <<>>

\* _build_paper_text: the truthy parts in order, to be joined; no part at
\* all is the empty string, which `or None` turns into None.
BuildPaperText(row) ==
    LET parts == (IF Truthy(row.title) THEN <<row.title>> ELSE <<>>)
                 \o (IF Truthy(row.abstract) THEN <<row.abstract>> ELSE <<>>)
                 \o (IF Truthy(row.conclusion)
                     THEN <<"Conclusion: ", row.conclusion>> ELSE <<>>)
    IN parts

\* LEFT JOIN ... ON e.paper_id = p.id AND e.model_name = %s WHERE e.paper_id
\* IS NULL: the paper has no row for the label.
NeedsEmbedding_anyLabel(rows, id, label) == \A l \in {label, OtherModelName} : <<id, l>> \notin rows

NeedsEmbedding(rows, id, label) == <<id, label>> \notin rows

\* The ids of a set in ascending order (ORDER BY p.id).
RECURSIVE Ascending(_)
Ascending(S) ==
    IF S = {} THEN <<>>
    ELSE LET m == CHOOSE x \in S : \A y \in S : x <= y IN <<m>> \o Ascending(S \ {m})

FirstN(seq, limit) ==
    IF limit = NoLimit \/ limit[1] >= Len(seq) THEN seq ELSE SubSeq(seq, 1, limit[1])

\* _select_papers_needing_embeddings(cur, limit): the ids of the rows
SelectPapersNeedingEmbeddings(store, rows, limit) ==
    FirstN(Ascending({id \in DOMAIN store :
                         NeedsEmbedding(rows, id, SEMANTIC_SEARCH_MODEL_NAME)}),
           limit)

\* for row in rows: text = text_builder(row); if text is None: continue
WithText(store, ids) == SelectSeq(ids, LAMBDA id : BuildPaperText(store[id]) # NoText)

\* seq[i : i + n] of Python, i 0-based
Slice(seq, i, n) == SubSeq(seq, i + 1, Min(i + n, Len(seq)))

\* _insert_embeddings_batch under the model label
InsertEmbeddingsBatch(rows, ids) ==
    rows \cup {<<ids[j], SEMANTIC_SEARCH_MODEL_NAME>> : j \in 1..Len(ids)}

EmbIdle ==
    /\ emb_store = <<>>
    /\ emb_rows = {}
    /\ emb_pc = "idle"
    /\ emb_args = [batch_size |-> 1, limit |-> NoLimit]
    /\ emb_ids = <<>>
    /\ emb_texts = <<>>
    /\ emb_i = 0
    /\ emb_calls = <<>>
    /\ emb_failed = FALSE
    /\ emb_had = {}
    /\ emb_runs = 0
    /\ emb_ctx = "other"
    /\ emb_since = "other"
    /\ emb_deleted = 0

\* Papers with and without text; some may hold an embedding of another model.
EmbedInit ==
    /\ emb_store \in [EntityIds -> PaperTexts]
    /\ emb_rows \in SUBSET {<<1, OtherModelName>>}
    /\ emb_pc = "idle"
    /\ emb_args = [batch_size |-> 1, limit |-> NoLimit]
    /\ emb_ids = <<>>
    /\ emb_texts = <<>>
    /\ emb_i = 0
    /\ emb_calls = <<>>
    /\ emb_failed = FALSE
    /\ emb_had = {}
    /\ emb_runs = 0
    /\ emb_ctx = "other"
    /\ emb_since = "other"
    /\ emb_deleted = 0

Between == emb_pc \in {"idle", "finished", "aborted"}

\* Lines 155-190: select, build the texts, return early when nothing is
\* left to embed.
EmbedStart ==
    /\ OnlyEmbed
    /\ Between
    /\ emb_runs < MaxEmbedRuns
    /\ \E bs \in 1..MaxBatchSize, limit \in {NoLimit} \cup {<<n>> : n \in 1..MaxBatchSize} :
        LET rows == SelectPapersNeedingEmbeddings(emb_store, emb_rows, limit)
            ids == WithText(emb_store, rows)
        IN /\ emb_args' = [batch_size |-> bs, limit |-> limit]
           /\ emb_ids' = ids
           /\ emb_texts' = [j \in 1..Len(ids) |-> BuildPaperText(emb_store[ids[j]])]
           /\ emb_pc' = IF ids = <<>> THEN "finished" ELSE "batches"
           /\ emb_since' = IF ids = <<>> /\ limit = NoLimit THEN "clean" ELSE "other"
    /\ emb_i' = 0
    /\ emb_calls' = <<>>
    /\ emb_failed' = FALSE
    /\ emb_had' = {id \in DOMAIN emb_store : <<id, SEMANTIC_SEARCH_MODEL_NAME>> \in emb_rows}
    /\ emb_runs' = emb_runs + 1
    /\ emb_ctx' = emb_since
    /\ UNCHANGED <<emb_store, emb_rows, emb_deleted>>

\* One turn of the batch loop in which embed_texts_local returns: the
\* encoder raised `fails` times (fewer than 3) and then answered with one
\* vector per text; the batch is inserted and committed.
EmbedBatch ==
    /\ OnlyEmbed
    /\ emb_pc = "batches" /\ emb_i < Len(emb_texts)
    /\ LET batch_ids == Slice(emb_ids, emb_i, emb_args.batch_size) IN
       \E fails \in 0..2 :
        /\ emb_calls' = emb_calls \o [k \in 1..(fails + 1) |-> batch_ids]
        /\ emb_failed' = (emb_failed \/ fails > 0)
        /\ emb_rows' = InsertEmbeddingsBatch(emb_rows, batch_ids)
    /\ emb_i' = emb_i + emb_args.batch_size
    /\ UNCHANGED <<emb_store, emb_pc, emb_args, emb_ids, emb_texts, emb_had,
                   emb_runs, emb_ctx, emb_since, emb_deleted>>

\* One turn in which the batch is given up: the encoder raised three times,
\* or returned a number of vectors other than the number of ids (continue).
EmbedBatchSkipped ==
    /\ OnlyEmbed
    /\ emb_pc = "batches" /\ emb_i < Len(emb_texts)
    /\ LET batch_ids == Slice(emb_ids, emb_i, emb_args.batch_size) IN
       \E attempts \in {1, 3} :
        emb_calls' = emb_calls \o [k \in 1..attempts |-> batch_ids]
    /\ emb_failed' = TRUE
    /\ emb_i' = emb_i + emb_args.batch_size
    /\ UNCHANGED <<emb_store, emb_rows, emb_pc, emb_args, emb_ids, emb_texts,
                   emb_had, emb_runs, emb_ctx, emb_since, emb_deleted>>

\* The loop ends: progress.close(), cur.close(), conn.close().
EmbedFinish ==
    /\ OnlyEmbed
    /\ emb_pc = "batches" /\ emb_i >= Len(emb_texts)
    /\ emb_pc' = "finished"
    /\ emb_since' = IF emb_args.limit = NoLimit /\ ~emb_failed THEN "clean" ELSE "other"
    /\ UNCHANGED <<emb_store, emb_rows, emb_args, emb_ids, emb_texts, emb_i,
                   emb_calls, emb_failed, emb_had, emb_runs, emb_ctx, emb_deleted>>

\* The run is interrupted between two batches (an insert raises, the
\* process is stopped): the committed batches stay.
EmbedAbort ==
    /\ OnlyEmbed
    /\ emb_pc = "batches"
    /\ emb_pc' = "aborted"
    /\ emb_since' = "other"
    /\ UNCHANGED <<emb_store, emb_rows, emb_args, emb_ids, emb_texts, emb_i,
                   emb_calls, emb_failed, emb_had, emb_runs, emb_ctx, emb_deleted>>

\* After a run somebody deletes one embedding row of the model label.
DeleteEmbedding ==
    /\ OnlyEmbed
    /\ emb_pc \in {"finished", "aborted"}
    /\ \E id \in DOMAIN emb_store :
        /\ <<id, SEMANTIC_SEARCH_MODEL_NAME>> \in emb_rows
        /\ emb_rows' = emb_rows \ {<<id, SEMANTIC_SEARCH_MODEL_NAME>>}
        /\ emb_deleted' = id
    /\ emb_since' = IF emb_since = "clean" THEN "clean_then_delete" ELSE "other"
    /\ emb_pc' = "idle"
    /\ UNCHANGED <<emb_store, emb_args, emb_ids, emb_texts, emb_i,
                   emb_calls, emb_failed, emb_had, emb_runs, emb_ctx>>

EmbedNext ==
    \/ EmbedStart
    \/ EmbedBatch
    \/ EmbedBatchSkipped
    \/ EmbedFinish
    \/ EmbedAbort
    \/ DeleteEmbedding

(***************************************************************************)
(* auto_index.py and search.py: the IVFFLAT tuner and its per-process      *)
(* cache _INDEX_TUNING, used by searches running in several threads.       *)
(***************************************************************************)
MaxSearches == 3        \* searches started in the process

Threads == {"t1", "t2"}
IndexKinds == {"paper", "concept"}

NoIndex == <<>>
NoParams == <<>>

\* choose_ivfflat_lists(num_rows)
choose_ivfflat_lists(num_rows) ==
    IF num_rows < 1000 THEN 50
    ELSE IF num_rows < 10000 THEN 100
    ELSE IF num_rows < 100000 THEN 200
    ELSE IF num_rows < 1000000 THEN 1000
    ELSE 2000

\* choose_probes(lists)
choose_probes(lists) ==
    IF lists <= 0 THEN 1
    ELSE IF lists <= 50 THEN 5
    ELSE IF lists <= 100 THEN 10
    ELSE IF lists <= 200 THEN 20
    ELSE IF lists <= 1000 THEN 50
    ELSE 100

Max(a, b) == IF a > b THEN a ELSE b

\* ratio > 1.5 for ratio = max(desired, current) / min(desired, current),
\* ratio = 999.0 when current is 0
RatioAbove15(desired, current) ==
    IF current = 0 THEN TRUE
    ELSE 2 * Max(desired, current) > 3 * Min(desired, current)

\* _ensure_embedding_index(conn, ..., dry_run=False): the (lists, probes) it
\* returns and the `lists` of the index it leaves.
EnsureEmbeddingIndex(num_rows, current) ==
    LET desired == choose_ivfflat_lists(num_rows) IN
    IF num_rows = 0
    THEN [lists |-> 50, probes |-> 1, index |-> current]
    ELSE IF current = NoIndex
    THEN [lists |-> desired, probes |-> choose_probes(desired), index |-> <<desired>>]
    ELSE IF RatioAbove15(desired, current[1])
    THEN [lists |-> desired, probes |-> choose_probes(desired), index |-> <<desired>>]
    ELSE [lists |-> current[1], probes |-> choose_probes(current[1]), index |-> current]

\* The cache entry of a kind before any tuning: None is <<>>, n is <<n>>.
Untuned == [lists |-> <<>>, probes |-> <<>>, initialized |-> FALSE]

\* `x or default` of Python for x None or an integer
OrDefault(x, default) ==
    IF x = <<>> THEN default ELSE IF x[1] = 0 THEN default ELSE x[1]

\* _get_index_params: state.get("lists") or 100, state.get("probes") or 10
GetIndexParams(state) == <<OrDefault(state.lists, 100), OrDefault(state.probes, 10)>>

IxIdle ==
    /\ INDEX_TUNING = [k \in IndexKinds |-> Untuned]
    /\ ix_rows = [k \in IndexKinds |-> 0]
    /\ ix_lists = [k \in IndexKinds |-> NoIndex]
    /\ ix_pc = [t \in Threads |-> "idle"]
    /\ ix_kind = [t \in Threads |-> "paper"]
    /\ ix_local = [t \in Threads |-> NoParams]
    /\ ix_used = [t \in Threads |-> NoParams]
    /\ ix_searches = 0
    /\ ix_tuned = [k \in IndexKinds |-> 0]

\* A fresh process; the tables hold some rows and may have an index.
IndexInit ==
    /\ INDEX_TUNING = [k \in IndexKinds |-> Untuned]
    /\ ix_rows \in [IndexKinds -> {0, 999, 20000}]
    /\ ix_lists \in [IndexKinds -> {NoIndex, <<50>>, <<200>>}]
    /\ ix_pc = [t \in Threads |-> "idle"]
    /\ ix_kind = [t \in Threads |-> "paper"]
    /\ ix_local = [t \in Threads |-> NoParams]
    /\ ix_used = [t \in Threads |-> NoParams]
    /\ ix_searches = 0
    /\ ix_tuned = [k \in IndexKinds |-> 0]

\* A thread enters search_papers ("paper") or search_concepts ("concept")
\* and calls _ensure_index_once(index_type).
SearchBegin ==
    /\ OnlyIndex
    /\ ix_searches < MaxSearches
    /\ \E t \in Threads, k \in IndexKinds :
        /\ ix_pc[t] = "idle"
        /\ ix_pc' = [ix_pc EXCEPT ![t] = "check"]
        /\ ix_kind' = [ix_kind EXCEPT ![t] = k]
    /\ ix_searches' = ix_searches + 1
    /\ UNCHANGED <<INDEX_TUNING, ix_rows, ix_lists, ix_local, ix_used, ix_tuned>>

\* if state["initialized"]: return      else: conn = get_conn()
IndexCheck ==
    /\ OnlyIndex
    /\ \E t \in Threads :
        /\ ix_pc[t] = "check"
        /\ ix_pc' = [ix_pc EXCEPT ![t] =
                        IF INDEX_TUNING[ix_kind[t]].initialized THEN "params" ELSE "tune"]
    /\ UNCHANGED <<INDEX_TUNING, ix_rows, ix_lists, ix_kind, ix_local, ix_used,
                   ix_searches, ix_tuned>>

\* lists, probes = ensure_<kind>_embedding_index(conn, dry_run=False)
IndexTune ==
    /\ OnlyIndex
    /\ \E t \in Threads :
        /\ ix_pc[t] = "tune"
        /\ LET k == ix_kind[t]
               r == EnsureEmbeddingIndex(ix_rows[k], ix_lists[k])
           IN /\ ix_lists' = [ix_lists EXCEPT ![k] = r.index]
              /\ ix_local' = [ix_local EXCEPT ![t] = <<r.lists, r.probes>>]
              /\ ix_tuned' = [ix_tuned EXCEPT ![k] = @ + 1]
        /\ ix_pc' = [ix_pc EXCEPT ![t] = "store"]
    /\ UNCHANGED <<INDEX_TUNING, ix_rows, ix_kind, ix_used, ix_searches>>

\* get_conn or the tuner raises: finally conn.close(); the search raises and
\* the cache stays as it was.
IndexTuneRaises ==
    /\ OnlyIndex
    /\ \E t \in Threads :
        /\ ix_pc[t] = "tune"
        /\ ix_pc' = [ix_pc EXCEPT ![t] = "idle"]
    /\ UNCHANGED <<INDEX_TUNING, ix_rows, ix_lists, ix_kind, ix_local, ix_used,
                   ix_searches, ix_tuned>>

\* state["lists"] = lists; state["probes"] = probes; state["initialized"] = True
IndexStore ==
    /\ OnlyIndex
    /\ \E t \in Threads :
        /\ ix_pc[t] = "store"
        /\ INDEX_TUNING' = [INDEX_TUNING EXCEPT ![ix_kind[t]] =
                               [lists |-> <<ix_local[t][1]>>, probes |-> <<ix_local[t][2]>>,
                                initialized |-> TRUE]]
        /\ ix_pc' = [ix_pc EXCEPT ![t] = "params"]
    /\ UNCHANGED <<ix_rows, ix_lists, ix_kind, ix_local, ix_used, ix_searches,
                   ix_tuned>>

\* lists, probes = _get_index_params(index_type); the query runs with them.
SearchQuery ==
    /\ OnlyIndex
    /\ \E t \in Threads :
        /\ ix_pc[t] = "params"
        /\ ix_used' = [ix_used EXCEPT ![t] = GetIndexParams(INDEX_TUNING[ix_kind[t]])]
        /\ ix_pc' = [ix_pc EXCEPT ![t] = "idle"]
    /\ UNCHANGED <<INDEX_TUNING, ix_rows, ix_lists, ix_kind, ix_local, ix_searches,
                   ix_tuned>>

IndexNext ==
    \/ SearchBegin
    \/ IndexCheck
    \/ IndexTune
    \/ IndexTuneRaises
    \/ IndexStore
    \/ SearchQuery

(***************************************************************************)
(* search.py: search_papers, search_concepts, search_papers_via_concepts   *)
(* and search_papers_hybrid on one store and for one query.  A vector is   *)
(* seen through its distance to the query vector; scores are fractions     *)
(* <<numerator, denominator>>.  Rows that compare equal under an ORDER BY  *)
(* or a sort come in any order.                                            *)
(***************************************************************************)
MaxSearchPapers == 3    \* papers in the store
MaxLimit == 2           \* argument limit
MaxOffset == 1          \* argument offset
MaxTopK == 2            \* arguments top_k_concepts, top_k_papers_per_concept

PaperIds == 1..MaxSearchPapers
ConceptIds == {"c1", "c2"}

NoVec == <<>>       \* no embedding row for the model label
NoScore == <<>>     \* the concept is not in papers.concepts of the paper

RatZero == <<0, 1>>
RatOne == <<1, 1>>
RatLE(a, b) == a[1] * b[2] <= b[1] * a[2]
RatEq(a, b) == a[1] * b[2] = b[1] * a[2]
RECURSIVE GCD(_, _)
GCD(a, b) == IF b = 0 THEN a ELSE GCD(b, a % b)

\* The fraction in lowest terms
Reduced(a) == IF a[1] = 0 THEN <<0, 1>> ELSE <<a[1] \div GCD(a[1], a[2]), a[2] \div GCD(a[1], a[2])>>

RatAdd(a, b) == Reduced(<<a[1] * b[2] + b[1] * a[2], a[2] * b[2]>>)
RatMul(a, b) == Reduced(<<a[1] * b[1], a[2] * b[2]>>)
RatDivInt(a, k) == Reduced(<<a[1], a[2] * k>>)

\* _cosine_distance_to_score: 1.0 / (1.0 + distance)
CosineDistanceToScore(distance) == <<1, 1 + distance>>

\* The orders ORDER BY distance can give the rows: S holds a pair
\* <<distance, row>> per row; ascending distance, rows of equal distance in
\* any order.
RECURSIVE SortedAsc(_)
SortedAsc(S) ==
    IF S = {} THEN {<<>>}
    ELSE UNION {{<<x[2]>> \o rest : rest \in SortedAsc(S \ {x})} :
                   x \in {y \in S : \A z \in S : y[1] <= z[1]}}

\* The orders a sort by descending score can give the rows: S holds a pair
\* <<score, row>> per row; rows of equal score in any order.
RECURSIVE SortedDesc_anyOrder(_)
SortedDesc_anyOrder(S) ==
    IF S = {} THEN {<<>>}
    ELSE UNION {{<<x[2]>> \o rest : rest \in SortedDesc_anyOrder(S \ {x})} : x \in S}

RECURSIVE SortedDesc(_)
SortedDesc(S) ==
    IF S = {} THEN {<<>>}
    ELSE UNION {{<<x[2]>> \o rest : rest \in SortedDesc(S \ {x})} :
                   x \in {y \in S : \A z \in S : RatLE(z[1], y[1])}}

\* search_papers(query, limit, offset): the embedded papers by ascending
\* distance, LIMIT limit OFFSET offset.
SearchPapers(store, limit, offset) ==
    LET embedded == {p \in PaperIds : store.dist[p] # NoVec}
    IN {[i \in DOMAIN page |->
            [paper_id |-> page[i],
             similarity |-> CosineDistanceToScore(store.dist[page[i]][1])]] :
          page \in {Slice(f, offset, limit) :
                      f \in SortedAsc({<<store.dist[p][1], p>> : p \in embedded})}}

\* search_concepts(query, top_k): the embedded concepts by ascending
\* distance, LIMIT top_k.
SearchConcepts(store, top_k) ==
    LET embedded == {c \in ConceptIds : store.cdist[c] # NoVec}
    IN {[i \in DOMAIN page |->
            [concept_id |-> page[i],
             similarity |-> CosineDistanceToScore(store.cdist[page[i]][1])]] :
          page \in {Slice(f, 0, top_k) :
                      f \in SortedAsc({<<store.cdist[c][1], c>> : c \in embedded})}}

SeqRange(seq) == {seq[i] : i \in DOMAIN seq}

\* The sum of the scores of the rows of S, a row being <<key, score>>
RECURSIVE RatSum(_)
RatSum(S) ==
    IF S = {} THEN RatZero
    ELSE LET x == CHOOSE y \in S : TRUE IN RatAdd(x[2], RatSum(S \ {x}))

\* cp.similarity * (p.concepts -> cp.concept_id ->> 'score')
MatchingScore(store, c, p) ==
    RatMul(CosineDistanceToScore(store.cdist[c][1]), store.concepts[p][c])

MatchingScoreRow(store, c, p) == <<c, MatchingScore(store, c, p)>>

\* The rows of concept c with rn <= top_k_papers_per_concept, by descending
\* matching_score: every list
\* ROW_NUMBER() OVER (PARTITION BY concept_id ORDER BY matching_score DESC)
\* can keep.
KeptPapers(store, c, top_k_papers_per_concept) ==
    LET holders == {p \in PaperIds : store.concepts[p][c] # NoScore}
    IN {Slice(f, 0, top_k_papers_per_concept) :
           f \in SortedDesc({<<MatchingScore(store, c, p), p>> : p \in holders})}

\* total_score = p["score_sum"] / float(top_k_concepts)
TotalScore_byMatched(score_sum, top_k_concepts, matched_concepts_count) == RatDivInt(score_sum, matched_concepts_count)

TotalScore(score_sum, top_k_concepts, matched_concepts_count) == RatDivInt(score_sum, top_k_concepts)

\* search_papers_via_concepts(query, top_k_concepts, top_k_papers_per_concept,
\* limit, offset): the concepts, each with its list of papers, and the page
\* of papers.
SearchPapersViaConcepts(store, top_k_concepts, top_k_papers_per_concept, limit, offset) ==
    UNION {
      LET cids == {concepts[i].concept_id : i \in DOMAIN concepts}
          keeps == [c \in cids |-> KeptPapers(store, c, top_k_papers_per_concept)]
      IN
      IF concepts = <<>>
      THEN {[concepts |-> <<>>, papers |-> <<>>, total_papers |-> 0]}
      ELSE UNION {
        LET matched == UNION {SeqRange(kept[c]) : c \in cids}
            Matched(p) == {c \in cids : p \in SeqRange(kept[c])}
            Total(p) ==
                TotalScore(RatSum({MatchingScoreRow(store, c, p) : c \in Matched(p)}),
                           top_k_concepts, Cardinality(Matched(p)))
            all_papers == {[paper_id |-> p, total_score |-> Total(p)] : p \in matched}
            concept_list ==
                [i \in DOMAIN concepts |->
                    [concept_id |-> concepts[i].concept_id,
                     similarity |-> concepts[i].similarity,
                     papers |-> [n \in DOMAIN kept[concepts[i].concept_id] |->
                        [paper_id |-> kept[concepts[i].concept_id][n],
                         matching_score |->
                            MatchingScore(store, concepts[i].concept_id,
                                          kept[concepts[i].concept_id][n])]]]]
        IN {[concepts |-> concept_list, papers |-> Slice(f, offset, limit),
             total_papers |-> Cardinality(all_papers)] :
               f \in SortedDesc({<<x.total_score, x>> : x \in all_papers})}
        : kept \in {k \in [cids -> UNION {keeps[c] : c \in cids}] :
                       \A c \in cids : k[c] \in keeps[c]}}
      : concepts \in SearchConcepts(store, top_k_concepts)}

\* _compute_missing_concept_scores_for_papers, for one paper
MissingConceptScore(store, pid, concept_sims, concepts_count) ==
    IF concept_sims = <<>> THEN RatZero
    ELSE LET held == {i \in DOMAIN concept_sims :
                         store.concepts[pid][concept_sims[i].concept_id] # NoScore}
         IN RatDivInt(
                RatSum({<<i, RatMul(concept_sims[i].similarity,
                                    store.concepts[pid][concept_sims[i].concept_id])>> :
                           i \in held}),
                concepts_count)

\* _compute_missing_paper_scores_for_papers, for one paper: 0.0 when the
\* paper has no embedding row
MissingPaperScore(store, pid) ==
    IF store.dist[pid] = NoVec THEN RatZero ELSE CosineDistanceToScore(store.dist[pid][1])

\* concept_sim_map = {c["concept_id"]: float(c["similarity"]) for c in concept_list}
ConceptSimMap(concept_list) ==
    [i \in DOMAIN concept_list |->
        [concept_id |-> concept_list[i].concept_id, similarity |-> concept_list[i].similarity]]

\* base_limit = offset + limit; if base_limit <= 0: base_limit = limit
BaseLimit_ignoresOffset(limit, offset) == limit

BaseLimit(limit, offset) == IF offset + limit <= 0 THEN limit ELSE offset + limit

\* search_papers_hybrid(query, limit, offset, paper_weight, concept_weight,
\* top_k_concepts, top_k_papers_per_concept): the page of papers.
SearchPapersHybrid(store, limit, offset, paper_weight, concept_weight, top_k_concepts, top_k_papers_per_concept) ==
    LET base_limit == BaseLimit(limit, offset) IN
    UNION {UNION {
      LET paper_ids == {paper_results[i].paper_id : i \in DOMAIN paper_results}
          concept_papers == concept_results[1]
          concept_sim_map == concept_results[2]
          concept_paper_ids == {concept_papers[i].paper_id : i \in DOMAIN concept_papers}
          all_ids == paper_ids \cup concept_paper_ids
          PaperScore(pid) ==
              IF pid \in paper_ids
              THEN (CHOOSE r \in SeqRange(paper_results) : r.paper_id = pid).similarity
              ELSE MissingPaperScore(store, pid)
          ConceptScore(pid) ==
              IF pid \in concept_paper_ids
              THEN (CHOOSE r \in SeqRange(concept_papers) : r.paper_id = pid).total_score
              ELSE MissingConceptScore(store, pid, concept_sim_map, top_k_concepts)
          combined_list ==
              {[paper_id |-> pid, source_id |-> store.source[pid],
                paper_score |-> PaperScore(pid),
                concept_score |-> ConceptScore(pid),
                combined_score |-> RatAdd(RatMul(paper_weight, PaperScore(pid)),
                                          RatMul(concept_weight, ConceptScore(pid)))] :
                  pid \in all_ids}
      IN {[papers |-> Slice(f, offset, limit), total_papers |-> Cardinality(combined_list)] :
             f \in SortedDesc({<<x.combined_score, x>> : x \in combined_list})}
      : concept_results \in
            {<<r.papers, ConceptSimMap(r.concepts)>> :
                r \in SearchPapersViaConcepts(store, top_k_concepts,
                                              top_k_papers_per_concept, base_limit, 0)}}
      : paper_results \in SearchPapers(store, base_limit, 0)}

NoRequest ==
    [limit |-> 0, offset |-> 0, top_k_concepts |-> 0, top_k_papers_per_concept |-> 0,
     paper_weight |-> RatZero, concept_weight |-> RatZero]

NoViaResult == [concepts |-> <<>>, papers |-> <<>>, total_papers |-> 0]
NoHybridResult == [papers |-> <<>>, total_papers |-> 0]
NoSourcesResult == [sources |-> <<>>, total_sources |-> 0]

SearchIdle ==
    /\ s_store = [dist |-> <<>>, concepts |-> <<>>, cdist |-> <<>>, source |-> <<>>]
    /\ s_pc = "new"
    /\ s_req = NoRequest
    /\ s_papers = <<>>
    /\ s_via = NoViaResult
    /\ s_hybrid = NoHybridResult
    /\ s_sources = NoSourcesResult
    /\ s_prev = <<>>

\* papers.concepts of a paper: concept id -> score
PaperConcepts ==
    {[c1 |-> NoScore, c2 |-> NoScore], [c1 |-> <<1, 1>>, c2 |-> NoScore],
     [c1 |-> <<1, 2>>, c2 |-> <<1, 1>>], [c1 |-> NoScore, c2 |-> <<1, 1>>]}

\* A number for what the store holds about paper p, its id apart
KindOf(store, p) ==
    LET Code(x) == IF x = <<>> THEN 0 ELSE IF x = <<1, 2>> \/ x = <<1>> THEN 1 ELSE 2
    IN 9 * Code(store.dist[p]) + 3 * Code(store.concepts[p]["c1"])
         + Code(store.concepts[p]["c2"])

\* The store: papers with or without an embedding, each holding some of the
\* concepts with a score; both concepts are embedded, c1 nearer to the query.
\* No query orders by paper id, so one listing of the papers stands for all.
SearchStores(sources) ==
    {st \in [dist : [PaperIds -> {NoVec, <<1>>, <<2>>}],
             concepts : [PaperIds -> PaperConcepts],
             cdist : {[c \in ConceptIds |-> IF c = "c1" THEN <<0>> ELSE <<2>>]},
             source : sources] :
        \A p \in PaperIds : p + 1 \in PaperIds => KindOf(st, p) <= KindOf(st, p + 1)}

\* Stores whose papers have no source: only search_sources_from_papers
\* reads papers.source_id.
SearchInit ==
    /\ s_store \in SearchStores({[p \in PaperIds |-> NULL]})
    /\ s_pc = "new"
    /\ s_req = NoRequest
    /\ s_papers = <<>>
    /\ s_via = NoViaResult
    /\ s_hybrid = NoHybridResult
    /\ s_sources = NoSourcesResult
    /\ s_prev = <<>>

\* search_papers(query, limit, offset)
CallSearchPapers ==
    /\ OnlySearch
    /\ s_pc = "new"
    /\ \E limit \in 1..MaxLimit, offset \in 0..MaxOffset :
        /\ s_req' = [s_req EXCEPT !.limit = limit, !.offset = offset]
        /\ s_papers' \in SearchPapers(s_store, limit, offset)
    /\ s_pc' = "papers"
    /\ UNCHANGED <<s_store, s_via, s_hybrid, s_sources, s_prev>>

\* search_papers_via_concepts(query, top_k_concepts,
\* top_k_papers_per_concept, limit, offset)
CallSearchPapersViaConcepts ==
    /\ OnlySearch
    /\ s_pc = "new"
    /\ \E limit \in 1..MaxLimit, offset \in 0..MaxOffset,
          kc \in 1..MaxTopK, kp \in 1..MaxTopK :
        /\ s_req' = [s_req EXCEPT !.limit = limit, !.offset = offset,
                                  !.top_k_concepts = kc,
                                  !.top_k_papers_per_concept = kp]
        /\ s_via' \in SearchPapersViaConcepts(s_store, kc, kp, limit, offset)
    /\ s_pc' = "via"
    /\ UNCHANGED <<s_store, s_papers, s_hybrid, s_sources, s_prev>>

\* search_papers_hybrid(...) after one of the two searches, with the same
\* arguments: weights (1, 0) after search_papers, (0, 1) after
\* search_papers_via_concepts
CallSearchPapersHybrid ==
    /\ OnlySearch
    /\ s_pc \in {"papers", "via"}
    /\ \E kc \in 1..MaxTopK, kp \in 1..MaxTopK :
        /\ s_pc = "via" => kc = s_req.top_k_concepts /\ kp = s_req.top_k_papers_per_concept
        /\ LET w == IF s_pc = "papers" THEN <<RatOne, RatZero>> ELSE <<RatZero, RatOne>>
           IN /\ s_req' = [s_req EXCEPT !.top_k_concepts = kc,
                                        !.top_k_papers_per_concept = kp,
                                        !.paper_weight = w[1], !.concept_weight = w[2]]
              /\ s_hybrid' \in SearchPapersHybrid(s_store, s_req.limit, s_req.offset,
                                  w[1], w[2], kc, kp)
    /\ s_pc' = "hybrid"
    /\ UNCHANGED <<s_store, s_papers, s_via, s_sources, s_prev>>

\* paper_weight and concept_weight of a hybrid search
Weights == {<<RatOne, RatZero>>, <<<<3, 5>>, <<2, 5>>>>}

SourceIds == {"S1", "S2"}

\* papers.source_id of the papers, in the order of the store
SourcePatterns == {<<"S1", "S2", "S1">>, <<"S2", NULL, "S2">>}

\* limit=1000000000 of the hybrid search inside search_sources_from_papers
HugeLimit == 1000000000

\* str(p["paper_id"])
Str(n) == <<"str", n>>

\* list.sort(key=aggregate_score, reverse=True) of a list of pairs
\* <<score, row>>: entries of equal score keep their order.
StableSortDesc_unsorted(pairs) == [i \in DOMAIN pairs |-> pairs[i][2]]

RECURSIVE StableSortDesc(_)
StableSortDesc(pairs) ==
    IF pairs = <<>> THEN <<>>
    ELSE LET i == CHOOSE k \in DOMAIN pairs :
                    /\ \A j \in DOMAIN pairs : RatLE(pairs[j][1], pairs[k][1])
                    /\ \A j \in 1..(k - 1) : ~RatEq(pairs[j][1], pairs[k][1])
         IN <<pairs[i][2]>> \o
              StableSortDesc(SubSeq(pairs, 1, i - 1) \o SubSeq(pairs, i + 1, Len(pairs)))

\* The keys of source_map in insertion order: the source ids of the papers
\* by first appearance, papers without source_id skipped.
SourceMapKeys(papers) ==
    LET keys[n \in 0..Len(papers)] ==
          IF n = 0 THEN <<>>
          ELSE IF /\ papers[n].source_id # NULL
                  /\ \A j \in 1..(n - 1) : papers[j].source_id # papers[n].source_id
               THEN Append(keys[n - 1], papers[n].source_id)
               ELSE keys[n - 1]
    IN keys[Len(papers)]

\* source_map[source_id] after the loop over the hybrid papers
SourceEntry(papers, source_id) ==
    LET entry[n \in 0..Len(papers)] ==
          IF n = 0 THEN [source_id |-> source_id, papers |-> <<>>, aggregate_score |-> RatZero]
          ELSE IF \/ papers[n].source_id # source_id
                  \/ \E k \in DOMAIN entry[n - 1].papers :
                        entry[n - 1].papers[k] = Str(papers[n].paper_id)
               THEN entry[n - 1]
               ELSE [source_id |-> source_id,
                     papers |-> Append(entry[n - 1].papers, Str(papers[n].paper_id)),
                     aggregate_score |-> RatAdd(entry[n - 1].aggregate_score,
                                                papers[n].combined_score)]
    IN entry[Len(papers)]

\* search_sources_from_papers after its hybrid search returned hybrid_papers
AggregateSources(hybrid_papers, limit, offset) ==
    LET keys == SourceMapKeys(hybrid_papers)
        source_list ==
            StableSortDesc([i \in DOMAIN keys |->
                               <<SourceEntry(hybrid_papers, keys[i]).aggregate_score,
                                 SourceEntry(hybrid_papers, keys[i])>>])
    IN [sources |-> Slice(source_list, offset, limit), total_sources |-> Len(source_list)]

\* search_papers_hybrid(query, limit, offset, paper_weight, concept_weight,
\* top_k_concepts, top_k_papers_per_concept) called first
CallSearchPapersHybridWeighted ==
    /\ OnlySearch
    /\ s_pc = "new"
    /\ \E limit \in 1..MaxLimit, offset \in 0..MaxOffset,
          kc \in 1..MaxTopK, kp \in 1..MaxTopK, w \in Weights :
        /\ s_req' = [limit |-> limit, offset |-> offset, top_k_concepts |-> kc,
                     top_k_papers_per_concept |-> kp,
                     paper_weight |-> w[1], concept_weight |-> w[2]]
        /\ s_hybrid' \in SearchPapersHybrid(s_store, limit, offset, w[1], w[2], kc, kp)
    /\ s_pc' = "hybrid"
    /\ UNCHANGED <<s_store, s_papers, s_via, s_sources, s_prev>>

\* search_sources_from_papers(query, limit, offset, paper_weight,
\* concept_weight, top_k_concepts, top_k_papers_per_concept); s_hybrid is
\* what its hybrid search returned
CallSearchSourcesFromPapers ==
    /\ OnlySearch
    /\ s_pc = "new"
    /\ \E limit \in 1..MaxLimit, offset \in 0..MaxOffset,
          kc \in 1..MaxTopK, kp \in 1..MaxTopK, w \in Weights :
        /\ s_req' = [limit |-> limit, offset |-> offset, top_k_concepts |-> kc,
                     top_k_papers_per_concept |-> kp,
                     paper_weight |-> w[1], concept_weight |-> w[2]]
        /\ \E hybrid_results \in SearchPapersHybrid(s_store, HugeLimit, 0, w[1], w[2], kc, kp) :
              /\ s_hybrid' = hybrid_results
              /\ s_sources' = AggregateSources(hybrid_results.papers, limit, offset)
    /\ s_pc' = "sources"
    /\ UNCHANGED <<s_store, s_papers, s_via, s_prev>>

\* The search made last is made again for another page: same query, store,
\* limit, weights and top_k arguments, another offset.
Repage ==
    /\ OnlySearch
    /\ s_pc \in {"via", "hybrid", "sources"}
    /\ s_prev = <<>>
    /\ \E limit \in {s_req.limit}, offset \in (0..MaxOffset) \ {s_req.offset} :
        /\ s_req' = [s_req EXCEPT !.offset = offset]
        /\ \/ /\ s_pc = "via"
              /\ s_via' \in SearchPapersViaConcepts(s_store, s_req.top_k_concepts,
                                s_req.top_k_papers_per_concept, limit, offset)
              /\ s_prev' = <<s_via.total_papers>>
              /\ UNCHANGED <<s_hybrid, s_sources>>
           \/ /\ s_pc = "hybrid"
              /\ s_hybrid' \in SearchPapersHybrid(s_store, limit, offset,
                                  s_req.paper_weight, s_req.concept_weight,
                                  s_req.top_k_concepts, s_req.top_k_papers_per_concept)
              /\ s_prev' = <<s_hybrid.total_papers>>
              /\ UNCHANGED <<s_via, s_sources>>
           \/ /\ s_pc = "sources"
              /\ \E hybrid_results \in SearchPapersHybrid(s_store, HugeLimit, 0,
                                          s_req.paper_weight, s_req.concept_weight,
                                          s_req.top_k_concepts,
                                          s_req.top_k_papers_per_concept) :
                    /\ s_hybrid' = hybrid_results
                    /\ s_sources' = AggregateSources(hybrid_results.papers, limit, offset)
              /\ s_prev' = <<s_sources.total_sources>>
              /\ UNCHANGED s_via
    /\ UNCHANGED <<s_store, s_pc, s_papers>>

\* Stores whose papers have a source
ModesInit ==
    /\ s_store \in SearchStores(SourcePatterns)
    /\ s_pc = "new"
    /\ s_req = NoRequest
    /\ s_papers = <<>>
    /\ s_via = NoViaResult
    /\ s_hybrid = NoHybridResult
    /\ s_sources = NoSourcesResult
    /\ s_prev = <<>>

\* Stores for the searches made twice: no two papers alike
PagingInit ==
    /\ s_store \in {st \in SearchStores({<<"S1", "S2", "S1">>}) :
                       \A p, q \in PaperIds : p # q => KindOf(st, p) # KindOf(st, q)}
    /\ s_pc = "new"
    /\ s_req = NoRequest
    /\ s_papers = <<>>
    /\ s_via = NoViaResult
    /\ s_hybrid = NoHybridResult
    /\ s_sources = NoSourcesResult
    /\ s_prev = <<>>

SearchNext ==
    \/ CallSearchPapers
    \/ CallSearchPapersViaConcepts
    \/ CallSearchPapersHybrid

(***************************************************************************)
(* The callers of the search: LitScoutAPI.search (api.py), the             *)
(* "semantic search" commands of run_command (cli.py), the                 *)
(* /api/search/papers view (client/views.py), semantic_search              *)
(* (search/semantic.py) and the functions of semantic/search.py called     *)
(* directly.  A query is a sequence of characters; a weight is a number of *)
(* tenths (One is 1.0, LegacyWeight is 0.4): on this grid the float        *)
(* comparisons of the code agree with exact arithmetic.  The store is      *)
(* reduced to what decides the encoder calls and the shape of the answer:  *)
(* hits (some embedded paper and concept exists) and missing (some paper   *)
(* of the concept leg lies outside the paper leg's window).                *)
(***************************************************************************)
Chars == {" ", "a"}

MaxQueryLen == 2

Queries == UNION {[1..n -> Chars] : n \in 0..MaxQueryLen}

RECURSIVE LStrip(_)
LStrip(q) == IF q # <<>> /\ Head(q) = " " THEN LStrip(Tail(q)) ELSE q

RECURSIVE RStrip(_)
RStrip(q) == IF q # <<>> /\ q[Len(q)] = " " THEN RStrip(SubSeq(q, 1, Len(q) - 1)) ELSE q

\* str.strip()
Strip(q) == RStrip(LStrip(q))

One == 10

LegacyWeight == 4

MaxWeight == 12

WeightGrid == 0..MaxWeight

NormalizeWeights_conceptFirst(paper_weight, concept_weight) ==
    IF paper_weight + concept_weight # One
    THEN IF concept_weight = LegacyWeight
         THEN <<paper_weight, One - paper_weight>>
         ELSE <<One - concept_weight, concept_weight>>
    ELSE <<paper_weight, concept_weight>>

\* api.py 230-234 (again 252-256, 271-275), cli.py 401-405, views.py 97-101
NormalizeWeights(paper_weight, concept_weight) ==
    IF paper_weight + concept_weight # One
    THEN IF paper_weight = LegacyWeight
         THEN <<One - concept_weight, concept_weight>>
         ELSE <<paper_weight, One - paper_weight>>
    ELSE <<paper_weight, concept_weight>>

EntryStores == {[hits |-> FALSE, missing |-> FALSE],
                [hits |-> TRUE, missing |-> FALSE],
                [hits |-> TRUE, missing |-> TRUE]}

Answer(store) == IF store.hits THEN "rows" ELSE "empty"

\* search_papers, search_concepts, search_papers_via_concepts: the query is
\* embedded as it is, search.py l.95, l.160, l.240; there is no test of the
\* query before.
EngineSingle(store, query) ==
    [encoded |-> <<query>>, outcome |-> Answer(store)]

\* search_papers_hybrid and, through it, search_sources_from_papers: one
\* embedding per leg, and one more in _compute_missing_paper_scores_for_papers
\* when some paper of the union has no paper score.
EngineHybrid(store, query) ==
    [encoded |-> <<query, query>> \o (IF store.missing THEN <<query>> ELSE <<>>),
     outcome |-> Answer(store)]

RaisedTypeError == [encoded |-> <<>>, outcome |-> "raised"]

ReturnedNone == [encoded |-> <<>>, outcome |-> "none"]

EmptyResult == [encoded |-> <<>>, outcome |-> "empty"]

EntryIdle ==
    /\ e_hits = [hits |-> FALSE, missing |-> FALSE]
    /\ e_pc = "idle"
    /\ e_call = <<>>
    /\ e_used = <<>>
    /\ e_encoded = <<>>
    /\ e_outcome = "none"

EntryInit ==
    /\ e_hits \in EntryStores
    /\ e_pc = "new"
    /\ e_call = <<>>
    /\ e_used = <<>>
    /\ e_encoded = <<>>
    /\ e_outcome = "none"

Answered(entry, type, query, paper_weight, concept_weight, used, r) ==
    /\ e_pc' = "done"
    /\ e_call' = [entry |-> entry, type |-> type, query |-> query,
                  paper_weight |-> paper_weight, concept_weight |-> concept_weight]
    /\ e_used' = used
    /\ e_encoded' = r.encoded
    /\ e_outcome' = r.outcome
    /\ UNCHANGED e_hits
    /\ OnlyEntry

\* search/semantic.py semantic_search
SemanticSearch ==
    /\ e_pc = "new"
    /\ \E query \in Queries :
         Answered("semantic_search", "papers", query, 0, 0, <<>>,
                  IF query = <<>> \/ Strip(query) = <<>>
                  THEN EmptyResult
                  ELSE EngineSingle(e_hits, Strip(query)))

\* a function of semantic/search.py called by itself
DirectTypes == {"search_papers", "search_concepts", "search_papers_via_concepts"}

DirectSearch ==
    /\ e_pc = "new"
    /\ \E query \in Queries, type \in DirectTypes :
         Answered("search.py", type, query, 0, 0, <<>>, EngineSingle(e_hits, query))

\* search_papers_hybrid or search_sources_from_papers called by itself: the
\* weights are used as they come
DirectHybrid ==
    /\ e_pc = "new"
    /\ \E query \in Queries, paper_weight \in WeightGrid, concept_weight \in WeightGrid,
          type \in {"search_papers_hybrid", "search_sources_from_papers"} :
         Answered("search.py", type, query, paper_weight, concept_weight,
                  <<paper_weight, concept_weight>>, EngineHybrid(e_hits, query))

\* api.py LitScoutAPI.search.  "concepts" hands limit= and offset= to
\* search_concepts(query, top_k) and "venue" leaves out the keyword-only limit
\* and offset of search_sources_from_papers: both calls raise TypeError before
\* the callee runs.  Any type but the listed ones falls off the if chain and
\* returns None.  ("author" calls search_authors_from_papers, which
\* semantic/search.py does not define; it is left out.)
ApiTypes == {"papers", "concepts", "hybrid", "venue", "other"}

ApiAnswer(store, type, query) ==
    CASE type = "papers" -> EngineSingle(store, query)
      [] type = "concepts" -> RaisedTypeError
      [] type = "hybrid" -> EngineHybrid(store, query)
      [] type = "venue" -> RaisedTypeError
      [] OTHER -> ReturnedNone

ApiUsed(type, paper_weight, concept_weight) ==
    IF type \in {"hybrid", "venue"}
    THEN NormalizeWeights(paper_weight, concept_weight)
    ELSE <<>>

LitScoutAPI_search ==
    /\ e_pc = "new"
    /\ \E query \in Queries, type \in ApiTypes,
          paper_weight \in WeightGrid, concept_weight \in WeightGrid :
         Answered("api", type, query, paper_weight, concept_weight,
                  ApiUsed(type, paper_weight, concept_weight),
                  ApiAnswer(e_hits, type, query))

\* cli.py run_command, semantic search papers | concepts | hybrid
CliTypes == {"papers", "concepts", "hybrid"}

RunCommandSearch ==
    /\ e_pc = "new"
    /\ \E query \in Queries, type \in CliTypes,
          paper_weight \in WeightGrid, concept_weight \in WeightGrid :
         Answered("cli", type, query, paper_weight, concept_weight,
                  IF type = "hybrid"
                  THEN NormalizeWeights(paper_weight, concept_weight)
                  ELSE <<>>,
                  IF type = "hybrid"
                  THEN EngineHybrid(e_hits, query)
                  ELSE EngineSingle(e_hits, query))

\* float(data.get(key) or default): a weight of 0 is replaced by the default
FloatOr(weight, default) == IF weight = 0 THEN default ELSE weight

\* client/views.py api_search_papers: strips the query, normalises the
\* weights, answers an empty query itself and hands the rest to
\* LitScoutAPI.search, which normalises again.
ViewWeights(paper_weight, concept_weight) ==
    LET w == NormalizeWeights(FloatOr(paper_weight, 8), FloatOr(concept_weight, 2))
    IN  NormalizeWeights(w[1], w[2])

ApiSearchPapersView ==
    /\ e_pc = "new"
    /\ \E query \in Queries, type \in {"papers", "hybrid"},
          paper_weight \in WeightGrid, concept_weight \in WeightGrid :
         LET q == Strip(query)
         IN  Answered("view", type, query, paper_weight, concept_weight,
                      IF q # <<>> /\ type = "hybrid"
                      THEN ViewWeights(paper_weight, concept_weight)
                      ELSE <<>>,
                      IF q = <<>> THEN EmptyResult
                      ELSE IF type = "papers" THEN EngineSingle(e_hits, q)
                      ELSE EngineHybrid(e_hits, q))

EntryNext ==
    \/ SemanticSearch
    \/ DirectSearch
    \/ DirectHybrid
    \/ LitScoutAPI_search
    \/ RunCommandSearch
    \/ ApiSearchPapersView

(***************************************************************************)
(* papers.concepts of one paper row: written by upsert_paper with the      *)
(* concepts of normalize_openalex_work (ingestion) and rewritten by        *)
(* enrich_single_paper.  A score is a number of tenths (One is 1.0); a     *)
(* provider entry carries <<score>> or <<>> for a missing score.           *)
(***************************************************************************)
MaxConceptList == 2     \* entries in the "concepts" list of a provider record

MaxRowWrites == 2       \* ingestions and enrichments of the paper

ProviderScores == {<<>>, <<-5>>, <<0>>, <<5>>, <<10>>, <<15>>}

ProviderConcepts ==
    {[id |-> id, score |-> s] : id \in {"C1", "C2"}, s \in ProviderScores}
        \cup {[id |-> "", score |-> <<10>>]}

ProviderConceptLists == UNION {[1..n -> ProviderConcepts] : n \in 0..MaxConceptList}

\* The paper is not stored: a value no concepts map equals
NoRow == {[id |-> "", score |-> 0]}

PrevScore(concepts_map, id) ==
    IF \E e \in concepts_map : e.id = id
    THEN (CHOOSE e \in concepts_map : e.id = id).score
    ELSE 0

\* if not id or score is None or score <= 0.0: continue
KeepConcept(c) == c.id # "" /\ c.score # <<>> /\ c.score[1] > 0

\* The loop over data["concepts"]: an entry passes KeepConcept and replaces
\* the entry of the same id when its score is greater.
RECURSIVE ConceptsMapFrom(_, _)
ConceptsMapFrom(concepts_map, concepts) ==
    IF concepts = <<>>
    THEN concepts_map
    ELSE LET c == Head(concepts)
         IN  ConceptsMapFrom(
                IF KeepConcept(c) /\ c.score[1] > PrevScore(concepts_map, c.id)
                THEN {e \in concepts_map : e.id # c.id}
                        \cup {[id |-> c.id, score |-> c.score[1]]}
                ELSE concepts_map,
                Tail(concepts))

ConceptsMap(concepts) == ConceptsMapFrom({}, concepts)

RowIdle ==
    /\ pc_row = NoRow
    /\ pc_given = <<>>
    /\ pc_last = "idle"
    /\ pc_count = 0

RowInit ==
    /\ pc_row = NoRow
    /\ pc_given = <<>>
    /\ pc_last = "none"
    /\ pc_count = 0

\* ingest_openalex_concept, one work: normalize_openalex_work, then
\* upsert_paper.  A new paper is inserted with p.concepts; a paper found by
\* its DOI gets concepts = EXCLUDED.concepts; a paper found by its openalex
\* id keeps its concepts.
IngestPaperConcepts ==
    /\ pc_last # "idle" /\ pc_count < MaxRowWrites
    /\ \E concepts \in ProviderConceptLists, by_doi \in BOOLEAN :
        /\ pc_row = NoRow => by_doi
        /\ pc_given' = concepts
        /\ pc_row' = IF by_doi THEN ConceptsMap(concepts) ELSE pc_row
        /\ pc_last' = IF by_doi THEN "ingest by doi" ELSE "ingest by openalex id"
    /\ pc_count' = pc_count + 1
    /\ OnlyRow

\* enrich_single_paper(cur, paper): UPDATE papers SET ... concepts = %s
EnrichSinglePaper ==
    /\ pc_last # "idle" /\ pc_count < MaxRowWrites
    /\ pc_row # NoRow
    /\ \E concepts \in ProviderConceptLists :
        /\ pc_given' = concepts
        /\ pc_row' = ConceptsMap(concepts)
    /\ pc_last' = "enrich"
    /\ pc_count' = pc_count + 1
    /\ OnlyRow

RowNext ==
    \/ IngestPaperConcepts
    \/ EnrichSinglePaper

(***************************************************************************)
(* The worker pools and their database cursors: ingest_openalex_concepts   *)
(* (ingest.py), whose task ingest_openalex_concept opens a connection and  *)
(* a cursor itself, and enrich_concepts_chunked, enrich_authors_chunked    *)
(* and enrich_papers_chunked (enrich.py), which open one connection and    *)
(* one cursor and hand that cursor to every task.  Cursor 0 is the one of  *)
(* the calling thread; cursor i is the one task i opened.                  *)
(***************************************************************************)
MaxCxTasks == 3         \* rows selected / concept ids submitted

PoolKinds == {"ingest", "enrich_concepts", "enrich_authors", "enrich_papers"}

PoolThreads == <<"T1", "T2">>

CallerCursor == 0

NotStarted == [state |-> "queued", thread |-> "none", cursor |-> -1]

\* ingest_openalex_concept: conn = get_conn(); cur = conn.cursor() in the
\* task.  enrich_*_chunked: ex.submit(enrich_single_*, cur, item) with the
\* caller's cur.
TaskCursor(kind, i) == IF kind = "ingest" THEN i ELSE CallerCursor

CxIdle ==
    /\ cx_kind = "none"
    /\ cx_workers = 0
    /\ cx_pc = "idle"
    /\ cx_task = <<>>
    /\ cx_users = {}

CxInit ==
    /\ cx_kind \in PoolKinds
    /\ cx_workers \in 1..Len(PoolThreads)
    /\ cx_pc = "new"
    /\ cx_task \in {[i \in 1..n |-> NotStarted] : n \in 1..MaxCxTasks}
    /\ cx_users = {}

BusyThreads == {cx_task[i].thread : i \in {j \in DOMAIN cx_task :
                                             cx_task[j].state \in {"fetching", "executing"}}}

FreeThreads == {PoolThreads[k] : k \in 1..cx_workers} \ BusyThreads

\* The caller: for the enrichments get_conn(), conn.cursor() and the SELECT
\* of the rows on cursor 0; then the pool is created and every item
\* submitted.
CxCall ==
    /\ OnlyConn
    /\ cx_pc = "new"
    /\ cx_pc' = "running"
    /\ cx_users' = IF cx_kind = "ingest" THEN {} ELSE {<<CallerCursor, "main">>}
    /\ UNCHANGED <<cx_kind, cx_workers, cx_task>>

\* A free pool thread takes a queued task; the task calls the provider
\* (fetcher / iter_works_for_concept).
CxTaskStart ==
    /\ OnlyConn
    /\ cx_pc = "running"
    /\ \E i \in DOMAIN cx_task, t \in FreeThreads :
        /\ cx_task[i].state = "queued"
        /\ cx_task' = [cx_task EXCEPT ![i] = [state |-> "fetching", thread |-> t,
                                              cursor |-> TaskCursor(cx_kind, i)]]
    /\ UNCHANGED <<cx_kind, cx_workers, cx_pc, cx_users>>

\* The task calls cur.execute(...) on its cursor
CxTaskExecute ==
    /\ OnlyConn
    /\ cx_pc = "running"
    /\ \E i \in DOMAIN cx_task :
        /\ cx_task[i].state = "fetching"
        /\ cx_task' = [cx_task EXCEPT ![i].state = "executing"]
        /\ cx_users' = cx_users \cup {<<cx_task[i].cursor, cx_task[i].thread>>}
    /\ UNCHANGED <<cx_kind, cx_workers, cx_pc>>

\* cur.execute(...) has returned, the task ends
CxTaskEnd ==
    /\ OnlyConn
    /\ cx_pc = "running"
    /\ \E i \in DOMAIN cx_task :
        /\ cx_task[i].state = "executing"
        /\ cx_task' = [cx_task EXCEPT ![i].state = "finished"]
    /\ UNCHANGED <<cx_kind, cx_workers, cx_pc, cx_users>>

\* The provider call raises: an enrichment task ends without a statement;
\* ingest_openalex_concept rolls back and closes its own connection.
CxTaskRaises ==
    /\ OnlyConn
    /\ cx_pc = "running"
    /\ \E i \in DOMAIN cx_task :
        /\ cx_task[i].state = "fetching"
        /\ cx_task' = [cx_task EXCEPT ![i].state = "finished"]
        /\ cx_users' = IF cx_kind = "ingest"
                       THEN cx_users \cup {<<cx_task[i].cursor, cx_task[i].thread>>}
                       ELSE cx_users
    /\ UNCHANGED <<cx_kind, cx_workers, cx_pc>>

\* Every future is collected; the enrichments commit and close on the
\* calling thread.
CxFinish ==
    /\ OnlyConn
    /\ cx_pc = "running"
    /\ \A i \in DOMAIN cx_task : cx_task[i].state = "finished"
    /\ cx_pc' = "done"
    /\ UNCHANGED <<cx_kind, cx_workers, cx_task, cx_users>>

ConnNext ==
    \/ CxCall
    \/ CxTaskStart
    \/ CxTaskExecute
    \/ CxTaskEnd
    \/ CxTaskRaises
    \/ CxFinish

(***************************************************************************)
(* embeddings.py: one run of _embed_missing_entities followed statement by *)
(* statement: the batch loop, the attempts of embed_texts_local, the       *)
(* insert loop and the commit.  The run writes rows of the model label     *)
(* only, so the table is seen as the set of ids that have such a row.      *)
(***************************************************************************)
MaxEncIds == 3          \* ids selected with a text

\* for attempt in range(3)
EncoderAttempts == 3

\* wait = 2.0 * (attempt + 1), in seconds
Wait_constant(att) == 2

Wait(att) == 2 * (att + 1)

\* conn.commit(): the rows written in the transaction become durable
Commit_nothing(durable, written) == durable

Commit(durable, written) == durable \cup written

NoHist == [calls |-> 0, sleeps |-> <<>>, outcome |-> "pending"]

\* range(0, len(texts), batch_size)
BatchStarts(ids, bs) == {i \in 0..(Len(ids) - 1) : i % bs = 0}

\* ids[i : i + batch_size] as a set
BatchIds(i) == {en_ids[k] : k \in (i + 1)..Min(i + en_bs, Len(en_ids))}

EncIdle ==
    /\ en_ids = <<>>
    /\ en_bs = 1
    /\ en_i = 0
    /\ en_pc = "done"
    /\ en_attempt = 0
    /\ en_hist = <<>>
    /\ en_j = 0
    /\ en_txn = {}
    /\ en_committed = {}
    /\ en_log = {}

\* The run has selected its ids (ORDER BY id), none of which has a row for
\* the label, and built their texts; it stands before the batch loop.
EncInit ==
    /\ \E n \in 1..MaxEncIds : en_ids = [k \in 1..n |-> k]
    /\ en_bs \in 1..MaxBatchSize
    /\ en_i = 0
    /\ en_pc = "loop"
    /\ en_attempt = 0
    /\ en_hist = [i \in BatchStarts(en_ids, en_bs) |-> NoHist]
    /\ en_j = 0
    /\ en_txn = {}
    /\ en_committed = {}
    /\ en_log = {}

\* for i in range(...): batch_texts, batch_ids are sliced and
\* embed_texts_local is entered with attempt = 0.
EncTurn ==
    /\ OnlyEnc
    /\ en_pc = "loop" /\ en_i < Len(en_ids)
    /\ en_pc' = "encode"
    /\ en_attempt' = 0
    /\ en_j' = 0
    /\ UNCHANGED <<en_ids, en_bs, en_i, en_hist, en_txn, en_committed, en_log>>

\* SEMANTIC_SEARCH_MODEL.encode raises.  On the last attempt the exception
\* leaves embed_texts_local and the caller logs it and continues with the
\* next batch; before that the function sleeps and tries again.
EncEncoderRaises ==
    /\ OnlyEnc
    /\ en_pc = "encode"
    /\ IF en_attempt = EncoderAttempts - 1
       THEN /\ en_hist' = [en_hist EXCEPT ![en_i].calls = @ + 1,
                                          ![en_i].outcome = "failed"]
            /\ en_log' = en_log \cup {en_i}
            /\ en_i' = en_i + en_bs
            /\ en_pc' = "loop"
            /\ UNCHANGED en_attempt
       ELSE /\ en_hist' = [en_hist EXCEPT ![en_i].calls = @ + 1,
                                          ![en_i].sleeps = Append(@, Wait(en_attempt))]
            /\ en_attempt' = en_attempt + 1
            /\ UNCHANGED <<en_log, en_i, en_pc>>
    /\ UNCHANGED <<en_ids, en_bs, en_j, en_txn, en_committed>>

\* The encoder answers.  With one vector per id the insert loop is entered;
\* with another number of vectors the batch is logged and skipped.
EncEncoderAnswers ==
    /\ OnlyEnc
    /\ en_pc = "encode"
    /\ \E as_many \in BOOLEAN :
        IF as_many
        THEN /\ en_hist' = [en_hist EXCEPT ![en_i].calls = @ + 1,
                                           ![en_i].outcome = "ok"]
             /\ en_pc' = "insert"
             /\ UNCHANGED <<en_log, en_i>>
        ELSE /\ en_hist' = [en_hist EXCEPT ![en_i].calls = @ + 1,
                                           ![en_i].outcome = "mismatch"]
             /\ en_log' = en_log \cup {en_i}
             /\ en_i' = en_i + en_bs
             /\ en_pc' = "loop"
    /\ UNCHANGED <<en_ids, en_bs, en_attempt, en_j, en_txn, en_committed>>

\* _insert_embeddings_batch: one cur.execute of the loop
EncInsertRow ==
    /\ OnlyEnc
    /\ en_pc = "insert" /\ en_i + en_j < Min(en_i + en_bs, Len(en_ids))
    /\ en_txn' = en_txn \cup {en_ids[en_i + en_j + 1]}
    /\ en_j' = en_j + 1
    /\ UNCHANGED <<en_ids, en_bs, en_i, en_pc, en_attempt, en_hist, en_committed,
                   en_log>>

\* conn.commit() after the insert loop; the loop goes to the next batch.
EncCommit ==
    /\ OnlyEnc
    /\ en_pc = "insert" /\ en_i + en_j >= Min(en_i + en_bs, Len(en_ids))
    /\ en_committed' = Commit(en_committed, en_txn)
    /\ en_txn' = {}
    /\ en_i' = en_i + en_bs
    /\ en_pc' = "loop"
    /\ UNCHANGED <<en_ids, en_bs, en_attempt, en_hist, en_j, en_log>>

\* The run ends inside the loop: the process is stopped, or an insert or the
\* commit raises, which nothing catches.  The open transaction is lost.
EncCrash ==
    /\ OnlyEnc
    /\ en_pc \in {"encode", "insert"}
    /\ en_pc' = "crashed"
    /\ en_txn' = {}
    /\ UNCHANGED <<en_ids, en_bs, en_i, en_attempt, en_hist, en_j, en_committed,
                   en_log>>

\* range is exhausted: progress.close(), cur.close(), conn.close()
EncFinish ==
    /\ OnlyEnc
    /\ en_pc = "loop" /\ en_i >= Len(en_ids)
    /\ en_pc' = "done"
    /\ UNCHANGED <<en_ids, en_bs, en_i, en_attempt, en_hist, en_j, en_txn,
                   en_committed, en_log>>

EncNext ==
    \/ EncTurn
    \/ EncEncoderRaises
    \/ EncEncoderAnswers
    \/ EncInsertRow
    \/ EncCommit
    \/ EncCrash
    \/ EncFinish

(***************************************************************************)
(* _insert_embeddings_batch of semantic/embeddings.py and of               *)
(* embeddings/papers.py on the table paper_embeddings.  The table's DDL is *)
(* not part of the repository; each statement names in ON CONFLICT the     *)
(* unique constraint it relies on, and the table has one or the other.     *)
(***************************************************************************)
MaxWrPapers == 2        \* papers
MaxWrCalls == 2         \* calls of _insert_embeddings_batch

WrLabels == {SEMANTIC_SEARCH_MODEL_NAME, OtherModelName}
WrVecs == {"v1", "v2"}

UniquePair == "paper_id, model_name"
UniquePaper == "paper_id"

\* The columns of a row that a unique constraint compares
KeyOf(row, constraint) ==
    IF constraint = UniquePair THEN <<row.id, row.label>> ELSE <<row.id>>

Satisfies(table, constraint) ==
    \A r1, r2 \in table : KeyOf(r1, constraint) = KeyOf(r2, constraint) => r1 = r2

\* Both modules: SET embedding[_vec] = EXCLUDED..., created_at = NOW().
\* embeddings/papers.py also: model_name = EXCLUDED.model_name.
Updated(old, new, writer) ==
    IF writer = "legacy" THEN new
    ELSE [old EXCEPT !.vec = new.vec, !.at = new.at]

\* The conflict target of the module's statement
ConflictTarget(writer) == IF writer = "legacy" THEN UniquePaper ELSE UniquePair

\* INSERT ... ON CONFLICT (target) DO UPDATE SET ...: <<>> when the database
\* rejects the statement because no unique constraint matches the target,
\* otherwise <<the table after it>>.
Upsert(table, constraint, row, writer) ==
    LET target == ConflictTarget(writer)
        hit == {r \in table : KeyOf(r, target) = KeyOf(row, target)}
    IN IF target # constraint THEN <<>>
       ELSE IF hit = {} THEN <<table \cup {row}>>
       ELSE << (table \ hit) \cup {Updated(r, row, writer) : r \in hit} >>

\* for pid, vec in zip(ids, embeddings): cur.execute(...); <<>> when a
\* statement raises.
RECURSIVE InsertEmbeddingsRows(_, _, _, _, _, _, _)
InsertEmbeddingsRows(table, constraint, ids, label, vec, now, writer) ==
    IF ids = <<>> THEN <<table>>
    ELSE LET one == Upsert(table, constraint,
                           [id |-> Head(ids), label |-> label, vec |-> vec, at |-> now],
                           writer)
         IN IF one = <<>> THEN <<>>
            ELSE InsertEmbeddingsRows(one[1], constraint, Tail(ids), label, vec, now,
                                      writer)

\* The id lists a caller passes: distinct ids in ascending order
WrIdLists == {<<1>>, <<2>>, <<1, 2>>}

NoCall == [writer |-> "none", label |-> "", ids |-> {}, vec |-> "", before |-> {},
           ok |-> FALSE]

WrIdle ==
    /\ wr_schema = UniquePair
    /\ wr_table = {}
    /\ wr_clock = 0
    /\ wr_last = NoCall

\* Any table the constraint allows, its rows written at time 0.
WrInit ==
    /\ wr_schema \in {UniquePair, UniquePaper}
    /\ wr_table \in SUBSET [id : 1..MaxWrPapers, label : WrLabels, vec : {"v0"}, at : {0}]
    /\ Satisfies(wr_table, wr_schema)
    /\ wr_clock = 0
    /\ wr_last = NoCall

\* One call of _insert_embeddings_batch and the conn.commit() after it; a
\* statement that raises ends the run and its transaction is rolled back.
WriteBatch(writer) ==
    /\ OnlyWrite
    /\ wr_clock < MaxWrCalls
    /\ \E ids \in WrIdLists, label \in WrLabels, vec \in WrVecs :
        LET res == InsertEmbeddingsRows(wr_table, wr_schema, ids, label, vec,
                                        wr_clock + 1, writer)
        IN /\ wr_table' = IF res = <<>> THEN wr_table ELSE res[1]
           /\ wr_last' = [writer |-> writer, label |-> label,
                          ids |-> {ids[k] : k \in 1..Len(ids)}, vec |-> vec,
                          before |-> wr_table, ok |-> res # <<>>]
    /\ wr_clock' = wr_clock + 1
    /\ UNCHANGED wr_schema

\* semantic/embeddings.py, under the label of the running process
WriteSemantic == WriteBatch("semantic")

\* embeddings/papers.py, under its argument model_name
WriteLegacy == WriteBatch("legacy")

WriteNext ==
    \/ WriteSemantic
    \/ WriteLegacy

(***************************************************************************)
(* auto_index.py: _ensure_embedding_index called on one embeddings table   *)
(* whose row count changes between the calls.                              *)
(***************************************************************************)
MaxTunerRuns == 2       \* calls of the tuner

\* Row counts around every step of the heuristic
TunerRows == {0, 1, 999, 1000, 9999, 10000, 99999, 100000, 999999, 1000000}

\* `lists` of an existing index, around 1.5 times the heuristic's values
TunerLists == {0, 50, 66, 67, 75, 76, 100, 150, 151, 200, 1000, 2000}

DropIndex == [op |-> "DROP INDEX", lists |-> 0]
CreateIndex(lists) == [op |-> "CREATE INDEX", lists |-> lists]

\* The DDL statements _ensure_embedding_index executes, in order
TunerDdl(num_rows, current, dry_run) ==
    LET desired == choose_ivfflat_lists(num_rows) IN
    IF num_rows = 0 \/ dry_run THEN <<>>
    ELSE IF current = NoIndex THEN <<CreateIndex(desired)>>
    ELSE IF RatioAbove15(desired, current[1]) THEN <<DropIndex, CreateIndex(desired)>>
    ELSE <<>>

NoRun == [rows |-> 0, before |-> NoIndex, after |-> NoIndex, dry_run |-> TRUE,
          lists |-> 0, probes |-> 0, ddl |-> <<>>]

TnIdle ==
    /\ tn_rows = 0
    /\ tn_index = NoIndex
    /\ tn_runs = 0
    /\ tn_last = NoRun

TnInit ==
    /\ tn_rows \in TunerRows
    /\ tn_index \in {NoIndex} \cup {<<c>> : c \in TunerLists}
    /\ tn_runs = 0
    /\ tn_last = NoRun

\* ensure_paper_embedding_index(conn, dry_run) from its first statement to
\* its return
TunerRun ==
    /\ OnlyTuner
    /\ tn_runs < MaxTunerRuns
    /\ \E dry_run \in BOOLEAN :
        LET r == EnsureEmbeddingIndex(tn_rows, tn_index)
            after == IF dry_run THEN tn_index ELSE r.index
        IN /\ tn_index' = after
           /\ tn_last' = [rows |-> tn_rows, before |-> tn_index, after |-> after,
                          dry_run |-> dry_run, lists |-> r.lists, probes |-> r.probes,
                          ddl |-> TunerDdl(tn_rows, tn_index, dry_run)]
    /\ tn_runs' = tn_runs + 1
    /\ UNCHANGED tn_rows

\* Between two calls embeddings are written or deleted.
TunerRowsChange ==
    /\ OnlyTuner
    /\ tn_runs < MaxTunerRuns
    /\ tn_last # NoRun
    /\ \E n \in TunerRows \ {tn_rows} : tn_rows' = n
    /\ UNCHANGED <<tn_index, tn_runs, tn_last>>

TunerNext ==
    \/ TunerRun
    \/ TunerRowsChange

(***************************************************************************)
(* normalizer.py: _reconstruct_abstract.  A string is the sequence of its  *)
(* characters; the inverted index is the dict in its insertion order.      *)
(***************************************************************************)
MaxPosition == 2        \* largest position in an inverted index
MaxIndexWords == 2      \* words in an inverted index

AbsWords == {<<"a">>, <<"b">>, <<"a", "b">>}

NoToken == <<"None">>

\* Inverted indexes: distinct words, each with a list of positions (the
\* order and repetitions inside one list do not change the result)
InvertedIndexes ==
    {ix \in UNION {[1..n -> AbsWords \X (SUBSET (0..MaxPosition))] : n \in 0..MaxIndexWords} :
        \A j, k \in 1..Len(ix) : ix[j][1] = ix[k][1] => j = k}

AllPositions(ix) == UNION {ix[k][2] : k \in 1..Len(ix)}

MaxOf(S) == CHOOSE m \in S : \A x \in S : x <= m

\* for word, positions in inverted_index.items(): for pos in positions:
\* tokens[pos] = word -- the last word listing a position stays.
TokenAt(ix, pos) ==
    LET listing == {k \in 1..Len(ix) : pos \in ix[k][2]}
    IN IF listing = {} THEN NoToken ELSE ix[MaxOf(listing)][1]

\* " ".join(parts)
RECURSIVE JoinSpace(_)
JoinSpace(parts) ==
    IF parts = <<>> THEN <<>>
    ELSE IF Len(parts) = 1 THEN parts[1]
    ELSE parts[1] \o <<" ">> \o JoinSpace(Tail(parts))

\* text.split(" ")
RECURSIVE SplitSpace(_)
SplitSpace(text) ==
    IF \A k \in 1..Len(text) : text[k] # " " THEN <<text>>
    ELSE LET at == CHOOSE k \in 1..Len(text) :
                      text[k] = " " /\ \A j \in 1..(k - 1) : text[j] # " "
         IN <<SubSeq(text, 1, at - 1)>> \o SplitSpace(SubSeq(text, at + 1, Len(text)))

\* _reconstruct_abstract(inverted_index) when max() finds a position
ReconstructAbstract(ix) ==
    IF ix = <<>> THEN <<>>
    ELSE LET max_pos == MaxOf(AllPositions(ix))
             tokens == [k \in 1..(max_pos + 1) |-> TokenAt(ix, k - 1)]
         IN JoinSpace(SelectSeq(tokens, LAMBDA t : t # NoToken))

AbsIdle ==
    /\ abs_index = <<>>
    /\ abs_pc = "returned"
    /\ abs_text = <<>>

AbsInit ==
    /\ abs_index \in InvertedIndexes
    /\ abs_pc = "given"
    /\ abs_text = <<>>

\* One call; max() of no position at all raises ValueError.
ReconstructCall ==
    /\ OnlyAbstract
    /\ abs_pc = "given"
    /\ IF abs_index # <<>> /\ AllPositions(abs_index) = {}
       THEN abs_pc' = "raised" /\ abs_text' = abs_text
       ELSE abs_pc' = "returned" /\ abs_text' = ReconstructAbstract(abs_index)
    /\ UNCHANGED abs_index

AbstractNext == ReconstructCall

(***************************************************************************)
(* search.py: search_papers_hybrid called three times for one query on one *)
(* store with the same weights and top-K arguments: for the page           *)
(* (limit L, offset 0), for the page (limit L, offset L) and for the page  *)
(* (limit 2L, offset 0).                                                   *)
(***************************************************************************)
PageSize == 1           \* L; 2L is within MaxLimit and L within MaxOffset

PgIdle ==
    /\ pg_store = [dist |-> <<>>, concepts |-> <<>>, cdist |-> <<>>, source |-> <<>>]
    /\ pg_req = NoRequest
    /\ pg_pc = "whole"
    /\ pg_first = <<>>
    /\ pg_second = <<>>
    /\ pg_whole = <<>>

PgInit ==
    /\ pg_store \in SearchStores({[p \in PaperIds |-> NULL]})
    /\ \E kc \in 1..MaxTopK, kp \in 1..MaxTopK, w \in Weights :
          pg_req = [limit |-> PageSize, offset |-> 0, top_k_concepts |-> kc,
                    top_k_papers_per_concept |-> kp,
                    paper_weight |-> w[1], concept_weight |-> w[2]]
    /\ pg_pc = "new"
    /\ pg_first = <<>>
    /\ pg_second = <<>>
    /\ pg_whole = <<>>

\* The papers search_papers_hybrid can return for the fixed arguments
HybridPage(limit, offset) ==
    {r.papers : r \in SearchPapersHybrid(pg_store, limit, offset, pg_req.paper_weight,
                                         pg_req.concept_weight, pg_req.top_k_concepts,
                                         pg_req.top_k_papers_per_concept)}

\* search_papers_hybrid(query, limit=L, offset=0, ...)
CallFirstPage ==
    /\ OnlyPage
    /\ pg_pc = "new"
    /\ pg_first' \in HybridPage(PageSize, 0)
    /\ pg_pc' = "first"
    /\ UNCHANGED <<pg_store, pg_req, pg_second, pg_whole>>

\* search_papers_hybrid(query, limit=L, offset=L, ...)
CallSecondPage ==
    /\ OnlyPage
    /\ pg_pc = "first"
    /\ pg_second' \in HybridPage(PageSize, PageSize)
    /\ pg_pc' = "second"
    /\ UNCHANGED <<pg_store, pg_req, pg_first, pg_whole>>

\* search_papers_hybrid(query, limit=2L, offset=0, ...)
CallWholePage ==
    /\ OnlyPage
    /\ pg_pc = "second"
    /\ pg_whole' \in HybridPage(2 * PageSize, 0)
    /\ pg_pc' = "whole"
    /\ UNCHANGED <<pg_store, pg_req, pg_first, pg_second>>

PageNext ==
    \/ CallFirstPage
    \/ CallSecondPage
    \/ CallWholePage

(***************************************************************************)
(* The title column of one paper row.  normalize_openalex_work             *)
(* (normalizer.py) derives the title of an ingested work; upsert_paper     *)
(* (db_writer.py) stores it on an insert and on a DOI conflict and leaves  *)
(* the column alone when the row is found by its OpenAlex id;              *)
(* enrich_single_paper (enrich.py) writes the title the provider returns.  *)
(* A title is a sequence of characters; None (the key is missing or null) *)
(* and the literal "(untitled)" are sequences of one symbol of their own.  *)
(***************************************************************************)
MaxTitleOps == 3

NoneTitle == <<"None">>

Untitled == <<"(untitled)">>

ProviderTitles == {NoneTitle} \cup UNION {[1..n -> Chars] : n \in 0..MaxQueryLen}

\* Python truthiness of a title: None and "" are false
TitleTruthy(t) == t # NoneTitle /\ t # <<>>

\* normalize_openalex_work: raw_title and title
NormalizeTitle(title, display_name) ==
    LET raw_title == IF TitleTruthy(title) THEN title ELSE display_name
    IN  IF raw_title # NoneTitle /\ Strip(raw_title) # <<>>
        THEN Strip(raw_title) ELSE Untitled

NoTitleOp == [op |-> "none", title |-> NoneTitle, display_name |-> NoneTitle, found_by |-> "none"]

TtIdle ==
    /\ tt_row = [exists |-> FALSE, title |-> NoneTitle]
    /\ tt_last = NoTitleOp
    /\ tt_count = 0

TtInit ==
    /\ tt_row = [exists |-> FALSE, title |-> NoneTitle]
    /\ tt_last = NoTitleOp
    /\ tt_count = 0

\* upsert_paper(cur, normalize_openalex_work(work)): the title column
UpsertPaperTitle(row, p_title, found_by) ==
    IF row.exists /\ found_by = "openalex"
    THEN row
    ELSE [exists |-> TRUE, title |-> p_title]

\* ingestion of one work of the paper
IngestTitle ==
    /\ OnlyTitle
    /\ tt_count < MaxTitleOps
    /\ \E title \in ProviderTitles, display_name \in ProviderTitles,
          found_by \in {"doi", "openalex"} :
          /\ tt_row' = UpsertPaperTitle(tt_row, NormalizeTitle(title, display_name), found_by)
          /\ tt_last' = [op |-> "ingest", title |-> title, display_name |-> display_name,
                         found_by |-> IF tt_row.exists THEN found_by ELSE "new"]
    /\ tt_count' = tt_count + 1

\* enrich_single_paper(cur, paper): UPDATE papers SET title = data.get("title")
EnrichTitle ==
    /\ OnlyTitle
    /\ tt_count < MaxTitleOps
    /\ tt_row.exists
    /\ \E title \in ProviderTitles :
          /\ tt_row' = [tt_row EXCEPT !.title = title]
          /\ tt_last' = [op |-> "enrich", title |-> title, display_name |-> NoneTitle,
                         found_by |-> "id"]
    /\ tt_count' = tt_count + 1

TitleNext ==
    \/ IngestTitle
    \/ EnrichTitle

(***************************************************************************)
(* search_papers_via_concepts and search_papers_hybrid on a store in which *)
(* concept_embeddings may hold no row of the model label, with the queries *)
(* each call makes.  A query is named by what it reads: the concept        *)
(* ranking of search_concepts, the join of the concepts against            *)
(* papers.concepts, the paper ranking of search_papers, and the two        *)
(* look-ups of the missing scores.                                         *)
(***************************************************************************)
\* concept_embeddings without and with rows of the model label
ConceptEmbeddings ==
    {[c \in ConceptIds |-> NoVec], [c \in ConceptIds |-> IF c = "c1" THEN <<0>> ELSE <<2>>]}

\* Every store without concept embeddings, and with them the stores whose
\* first two papers have no embedding
ZcStores ==
    {st \in {[base EXCEPT !.cdist = cd] :
                base \in SearchStores({[p \in PaperIds |-> NULL]}),
                cd \in ConceptEmbeddings} :
        st.cdist["c1"] # NoVec => st.dist[1] = NoVec /\ st.dist[2] = NoVec}

\* search_papers_via_concepts: search_concepts always queries; the join runs
\* only past the early return on "not concepts"
ViaQueries_joinAlways(concepts) == <<"concept_ranking", "paper_concepts_join">>

ViaQueries(concepts) ==
    <<"concept_ranking">> \o (IF concepts = <<>> THEN <<>> ELSE <<"paper_concepts_join">>)

\* search_papers_hybrid: search_papers, search_papers_via_concepts, then the
\* look-ups, each skipped when it has nothing to look up
HybridQueries(concept_list, all_ids, paper_ids, concept_paper_ids) ==
    <<"paper_ranking">> \o ViaQueries(concept_list)
      \o (IF all_ids \ concept_paper_ids = {} \/ concept_list = <<>>
          THEN <<>> ELSE <<"papers_concepts_by_id">>)
      \o (IF all_ids \ paper_ids = {} THEN <<>> ELSE <<"paper_embeddings_by_id">>)

ZcIdle ==
    /\ zc_store = [dist |-> <<>>, concepts |-> <<>>, cdist |-> <<>>, source |-> <<>>]
    /\ zc_pc = "idle"
    /\ zc_req = NoRequest
    /\ zc_via = NoViaResult
    /\ zc_hybrid = NoHybridResult
    /\ zc_queried = <<>>

ZcInit ==
    /\ zc_store \in ZcStores
    /\ zc_pc = "new"
    /\ zc_req = NoRequest
    /\ zc_via = NoViaResult
    /\ zc_hybrid = NoHybridResult
    /\ zc_queried = <<>>

\* search_papers_via_concepts(query, top_k_concepts,
\* top_k_papers_per_concept, limit, offset)
ZcCallViaConcepts ==
    /\ OnlyZc
    /\ zc_pc = "new"
    /\ \E limit \in 1..MaxLimit, offset \in 0..MaxOffset,
          kc \in 1..MaxTopK, kp \in 1..MaxTopK :
        /\ zc_req' = [zc_req EXCEPT !.limit = limit, !.offset = offset,
                                    !.top_k_concepts = kc,
                                    !.top_k_papers_per_concept = kp]
        /\ zc_via' \in SearchPapersViaConcepts(zc_store, kc, kp, limit, offset)
    /\ zc_queried' = ViaQueries(zc_via'.concepts)
    /\ zc_pc' = "via"
    /\ UNCHANGED <<zc_store, zc_hybrid>>

\* search_papers_hybrid(query, limit, offset, paper_weight, concept_weight,
\* top_k_concepts, top_k_papers_per_concept)
ZcCallHybrid ==
    /\ OnlyZc
    /\ zc_pc = "new"
    /\ \E limit \in 1..MaxLimit, offset \in 0..MaxOffset,
          kc \in 1..MaxTopK, kp \in 1..MaxTopK, w \in Weights :
        /\ zc_req' = [limit |-> limit, offset |-> offset, top_k_concepts |-> kc,
                      top_k_papers_per_concept |-> kp,
                      paper_weight |-> w[1], concept_weight |-> w[2]]
        /\ \E paper_results \in SearchPapers(zc_store, BaseLimit(limit, offset), 0),
              concept_results \in SearchPapersViaConcepts(zc_store, kc, kp,
                                                          BaseLimit(limit, offset), 0) :
             LET paper_ids == {paper_results[i].paper_id : i \in DOMAIN paper_results}
                 concept_paper_ids == {concept_results.papers[i].paper_id :
                                          i \in DOMAIN concept_results.papers}
             IN /\ zc_hybrid' \in SearchPapersHybrid(zc_store, limit, offset, w[1], w[2], kc, kp)
                /\ zc_queried' = HybridQueries(concept_results.concepts,
                                               paper_ids \cup concept_paper_ids,
                                               paper_ids, concept_paper_ids)
    /\ zc_pc' = "hybrid"
    /\ UNCHANGED <<zc_store, zc_via>>

ZcNext ==
    \/ ZcCallViaConcepts
    \/ ZcCallHybrid

(***************************************************************************)
(* main.py: GET /search.  FastAPI validates the query parameters against   *)
(* the Query(...) declarations before the handler runs and answers 422     *)
(* itself; the handler calls semantic_search and turns any exception into  *)
(* a 500.  A parameter is absent (<<>>) or present (<<value>>); min_score  *)
(* is a number of tenths.  semantic_search is whatever the caller finds    *)
(* under that name (the tests replace it): it raises or returns results,   *)
(* of which the model keeps the title, a string or None.                   *)
(***************************************************************************)
MaxResults == 2

TopKDefault == 10

TopKCeiling == 100

ModelDefault == "bge-small-en-v1.5-local"

Absent == <<>>

QValues == {Absent, <<<<>>>>, <<<<"a">>>>}

TopKValues == {Absent, <<0>>, <<1>>, <<5>>, <<TopKCeiling>>, <<TopKCeiling + 1>>}

MinScoreValues == {Absent, <<0 - 1>>, <<0>>, <<5>>, <<One>>, <<One + 1>>}

ModelValues == {Absent, <<"custom-model">>}

Requests == [q : QValues, top_k : TopKValues, min_score : MinScoreValues, model : ModelValues]

\* The value of a parameter: the default when the request leaves it out
ParamOr(param, default) == IF param = Absent THEN default ELSE param[1]

\* q: str = Query(..., min_length=1)
QValid(q) == q # Absent /\ Len(q[1]) >= 1

\* top_k: int = Query(10, ge=1, le=100)
TopKValid_noCeiling(top_k) == 1 <= ParamOr(top_k, TopKDefault)

TopKValid(top_k) ==
    1 <= ParamOr(top_k, TopKDefault) /\ ParamOr(top_k, TopKDefault) <= TopKCeiling

\* min_score: float = Query(0.0, ge=0.0, le=1.0)
MinScoreValid(min_score) ==
    0 <= ParamOr(min_score, 0) /\ ParamOr(min_score, 0) <= One

RequestValid(req) == QValid(req.q) /\ TopKValid(req.top_k) /\ MinScoreValid(req.min_score)

\* semantic_search(query=q, model_name=model, top_k=top_k, min_score=min_score)
SemanticSearchKwargs(req) ==
    [query |-> req.q[1], model_name |-> ParamOr(req.model, ModelDefault),
     top_k |-> ParamOr(req.top_k, TopKDefault), min_score |-> ParamOr(req.min_score, 0)]

NotCalled == [kind |-> "not called", titles |-> <<>>]

\* What a call of semantic_search can do
SemanticSearchOutcomes ==
    {[kind |-> "raised", titles |-> <<>>]} \cup
    {[kind |-> "returned", titles |-> t] :
        t \in UNION {[1..n -> {"Test Paper", "None"}] : n \in 0..MaxResults}}

\* SearchResultResponse(title=r.title, ...): title is a required str
ResponseBuilt(outcome) ==
    outcome.kind = "returned" /\ \A i \in DOMAIN outcome.titles : outcome.titles[i] # "None"

ApIdle ==
    /\ ap_pc = "idle"
    /\ ap_req = [q |-> Absent, top_k |-> Absent, min_score |-> Absent, model |-> Absent]
    /\ ap_calls = <<>>
    /\ ap_returned = NotCalled
    /\ ap_status = 0
    /\ ap_total = 0

ApInit ==
    /\ ap_pc = "new"
    /\ ap_req = [q |-> Absent, top_k |-> Absent, min_score |-> Absent, model |-> Absent]
    /\ ap_calls = <<>>
    /\ ap_returned = NotCalled
    /\ ap_status = 0
    /\ ap_total = 0

\* A request the validation rejects: the handler does not run
GetSearchRejected ==
    /\ OnlyApi
    /\ ap_pc = "new"
    /\ \E req \in Requests :
         /\ ~RequestValid(req)
         /\ ap_req' = req
    /\ ap_status' = 422
    /\ ap_pc' = "done"
    /\ UNCHANGED <<ap_calls, ap_returned, ap_total>>

\* search_papers(q, top_k, min_score, model): the handler
GetSearchHandled ==
    /\ OnlyApi
    /\ ap_pc = "new"
    /\ \E req \in Requests, outcome \in SemanticSearchOutcomes :
         /\ RequestValid(req)
         /\ ap_req' = req
         /\ ap_calls' = Append(ap_calls, SemanticSearchKwargs(req))
         /\ ap_returned' = outcome
         /\ ap_status' = IF ResponseBuilt(outcome) THEN 200 ELSE 500
         /\ ap_total' = IF ResponseBuilt(outcome) THEN Len(outcome.titles) ELSE 0
    /\ ap_pc' = "done"

ApiNext ==
    \/ GetSearchRejected
    \/ GetSearchHandled

(***************************************************************************)
(* The database connections of ingest_openalex_concept (ingest.py),        *)
(* search_papers with _ensure_index_once (search.py) and                   *)
(* _embed_missing_entities (embeddings.py).  A call is the sequence of its *)
(* events: "open" is get_conn(), "close" is conn.close(), "raise" ends a   *)
(* call that raises; the other events name the step between them and a     *)
(* step that raises is named "... error".  Which step raises is the input. *)
(***************************************************************************)
MaxLeakCalls == 3

MaxLeakBatches == 2

\* ingest_openalex_concept: get_conn(); try: works, mark, commit;
\* except: rollback, raise; finally: close
IngestConceptEvents(fault) ==
    <<"open">> \o
    (CASE fault = "provider" -> <<"provider error", "rollback", "close", "raise">>
       [] fault = "writer" -> <<"works", "writer error", "rollback", "close", "raise">>
       [] fault = "mark" -> <<"works", "mark error", "rollback", "close", "raise">>
       [] OTHER -> <<"works", "mark", "commit", "close">>)

\* _ensure_index_once: nothing when initialized; else get_conn(); try: the
\* tuner; finally: close
EnsureIndexOnceEvents(initialized, fault) ==
    IF initialized THEN <<>>
    ELSE <<"open">> \o (IF fault = "tuner"
                        THEN <<"tuner error", "close", "raise">>
                        ELSE <<"tune", "close">>)

Raises(events) == events # <<>> /\ events[Len(events)] = "raise"

\* search_papers: _ensure_index_once("paper"); _embed_query(query);
\* get_conn(); the query; cur.close(); conn.close()
SearchPapersEvents(initialized, fault) ==
    LET ensured == EnsureIndexOnceEvents(initialized, fault)
    IN  IF Raises(ensured) THEN ensured
        ELSE IF fault = "encoder" THEN ensured \o <<"encoder error", "raise">>
        ELSE ensured \o <<"encode", "open">> \o
               (IF fault = "query" THEN <<"query error", "raise">> ELSE <<"query", "close">>)

\* The loop of _embed_missing_entities: an encoder error is caught and the
\* batch skipped; _insert_embeddings_batch and conn.commit() are not guarded
RECURSIVE EmbedLoopEvents(_)
EmbedLoopEvents(batches) ==
    IF batches = <<>> THEN <<"close">>
    ELSE CASE Head(batches) = "encoder" -> <<"encoder error">> \o EmbedLoopEvents(Tail(batches))
           [] Head(batches) = "insert" -> <<"encode", "insert error", "raise">>
           [] OTHER -> <<"encode", "insert", "commit">> \o EmbedLoopEvents(Tail(batches))

\* _embed_missing_entities: get_conn(); select_fn; close and return when
\* there is nothing to embed; else the loop
EmbedMissingEntitiesEvents(selected, batches) ==
    <<"open">> \o
    (CASE selected = "select error" -> <<"select error", "raise">>
       [] selected = "nothing" -> <<"select", "close">>
       [] OTHER -> <<"select">> \o EmbedLoopEvents(batches))

\* How many events of the sequence are e
RECURSIVE CountOf(_, _)
CountOf(events, e) ==
    IF events = <<>> THEN 0
    ELSE (IF Head(events) = e THEN 1 ELSE 0) + CountOf(Tail(events), e)

\* The connections a call has opened and not closed
OpenLeft(events) == CountOf(events, "open") - CountOf(events, "close")

LkIdle ==
    /\ lk_kind = "none"
    /\ lk_fault = "none"
    /\ lk_events = <<>>
    /\ lk_outcome = "idle"
    /\ lk_initialized = FALSE
    /\ lk_calls = 0
    /\ lk_leaked = 0

LkInit ==
    /\ lk_kind = "none"
    /\ lk_fault = "none"
    /\ lk_events = <<>>
    /\ lk_outcome = "new"
    /\ lk_initialized = FALSE
    /\ lk_calls = 0
    /\ lk_leaked = 0

\* A call is made once the one before has returned or raised
LkCalled(kind, fault, events) ==
    /\ OnlyLeak
    /\ lk_outcome # "idle"
    /\ lk_calls < MaxLeakCalls
    /\ lk_kind' = kind
    /\ lk_fault' = fault
    /\ lk_events' = events
    /\ lk_outcome' = IF Raises(events) THEN "raised" ELSE "returned"
    /\ lk_calls' = lk_calls + 1
    /\ lk_leaked' = lk_leaked + OpenLeft(lk_events)

\* ingest_openalex_concept(concept_id, pages)
LkIngestOpenalexConcept ==
    /\ \E fault \in {"none", "provider", "writer", "mark"} :
          LkCalled("ingest_openalex_concept", fault, IngestConceptEvents(fault))
    /\ UNCHANGED lk_initialized

\* search_papers(query, limit, offset)
LkSearchPapers ==
    \E fault \in {"none", "tuner", "encoder", "query"} :
       /\ fault = "tuner" => ~lk_initialized
       /\ LkCalled("search_papers", fault, SearchPapersEvents(lk_initialized, fault))
       /\ lk_initialized' = (lk_initialized \/ fault # "tuner")

\* _embed_missing_entities(...)
LkEmbedMissingEntities ==
    /\ \E selected \in {"select error", "nothing", "rows"},
          batches \in UNION {[1..n -> {"ok", "encoder", "insert"}] : n \in 1..MaxLeakBatches} :
          LET events == EmbedMissingEntitiesEvents(selected, batches)
          IN  /\ selected # "rows" => batches = <<"ok">>
              /\ LkCalled("_embed_missing_entities",
                          IF selected = "select error" THEN "select"
                          ELSE IF Raises(events) THEN "insert"
                          ELSE "none",
                          events)
    /\ UNCHANGED lk_initialized

LeakNext ==
    \/ LkIngestOpenalexConcept
    \/ LkSearchPapers
    \/ LkEmbedMissingEntities

(***************************************************************************)
(* Specifications                                                          *)
(***************************************************************************)
GetInit == GetIdle /\ IterIdle /\ DbIdle /\ UpIdle /\ IngIdle /\ PoolIdle /\ EmbIdle /\ IxIdle /\ SearchIdle /\ EntryIdle /\ RowIdle /\ CxIdle /\ EncIdle /\ WrIdle /\ TnIdle /\ AbsIdle /\ PgIdle /\ TtIdle /\ ZcIdle /\ ApIdle /\ LkIdle

SpecGet == GetInit /\ [][GetNext]_vars

IterSpecInit == GetIdle /\ IterInit /\ DbIdle /\ UpIdle /\ IngIdle /\ PoolIdle /\ EmbIdle /\ IxIdle /\ SearchIdle /\ EntryIdle /\ RowIdle /\ CxIdle /\ EncIdle /\ WrIdle /\ TnIdle /\ AbsIdle /\ PgIdle /\ TtIdle /\ ZcIdle /\ ApIdle /\ LkIdle

SpecIter == IterSpecInit /\ [][IterNext]_vars

UpsertInit == GetIdle /\ IterIdle /\ DbIdle /\ UpIdle /\ IngIdle /\ PoolIdle /\ EmbIdle /\ IxIdle /\ SearchIdle /\ EntryIdle /\ RowIdle /\ CxIdle /\ EncIdle /\ WrIdle /\ TnIdle /\ AbsIdle /\ PgIdle /\ TtIdle /\ ZcIdle /\ ApIdle /\ LkIdle

SpecUpsert == UpsertInit /\ [][UpsertNext]_vars

IngestSpecInit == GetIdle /\ IterIdle /\ DbIdle /\ UpIdle /\ IngestInit /\ PoolIdle /\ EmbIdle /\ IxIdle /\ SearchIdle /\ EntryIdle /\ RowIdle /\ CxIdle /\ EncIdle /\ WrIdle /\ TnIdle /\ AbsIdle /\ PgIdle /\ TtIdle /\ ZcIdle /\ ApIdle /\ LkIdle

SpecIngest == IngestSpecInit /\ [][IngestNext]_vars

PoolSpecInit == GetIdle /\ IterIdle /\ PoolDbInit /\ UpIdle /\ IngIdle /\ PoolInit /\ EmbIdle /\ IxIdle /\ SearchIdle /\ EntryIdle /\ RowIdle /\ CxIdle /\ EncIdle /\ WrIdle /\ TnIdle /\ AbsIdle /\ PgIdle /\ TtIdle /\ ZcIdle /\ ApIdle /\ LkIdle

SpecPool == PoolSpecInit /\ [][PoolNext]_vars

\* The pool threads of a wide call, up to the mark of each task: what
\* follows (the end of a task, the collection of the results by the calling
\* thread) starts no task.
WidePoolSpecInit ==
    GetIdle /\ IterIdle /\ DbIdle /\ UpIdle /\ IngIdle /\ WidePoolInit /\ EmbIdle /\ IxIdle /\ SearchIdle /\ EntryIdle /\ RowIdle /\ CxIdle /\ EncIdle /\ WrIdle /\ TnIdle /\ AbsIdle /\ PgIdle /\ TtIdle /\ ZcIdle /\ ApIdle /\ LkIdle

WidePoolNext ==
    \/ PoolCall
    \/ PoolTaskStart
    \/ PoolTaskMark

SpecWidePool == WidePoolSpecInit /\ [][WidePoolNext]_vars

EmbedSpecInit ==
    GetIdle /\ IterIdle /\ DbIdle /\ UpIdle /\ IngIdle /\ PoolIdle /\ EmbedInit /\ IxIdle
    /\ SearchIdle /\ EntryIdle /\ RowIdle /\ CxIdle /\ EncIdle /\ WrIdle /\ TnIdle /\ AbsIdle /\ PgIdle /\ TtIdle /\ ZcIdle /\ ApIdle /\ LkIdle

SpecEmbed == EmbedSpecInit /\ [][EmbedNext]_vars

IndexSpecInit ==
    GetIdle /\ IterIdle /\ DbIdle /\ UpIdle /\ IngIdle /\ PoolIdle /\ EmbIdle /\ IndexInit
    /\ SearchIdle /\ EntryIdle /\ RowIdle /\ CxIdle /\ EncIdle /\ WrIdle /\ TnIdle /\ AbsIdle /\ PgIdle /\ TtIdle /\ ZcIdle /\ ApIdle /\ LkIdle

SpecIndex == IndexSpecInit /\ [][IndexNext]_vars

SearchSpecInit ==
    GetIdle /\ IterIdle /\ DbIdle /\ UpIdle /\ IngIdle /\ PoolIdle /\ EmbIdle /\ IxIdle /\ EntryIdle /\ RowIdle /\ CxIdle /\ EncIdle /\ WrIdle /\ TnIdle /\ AbsIdle /\ PgIdle /\ TtIdle /\ ZcIdle /\ ApIdle /\ LkIdle
    /\ SearchInit

SpecSearch == SearchSpecInit /\ [][SearchNext]_vars

\* search_papers_via_concepts alone
ViaNext == CallSearchPapersViaConcepts

SpecVia == SearchSpecInit /\ [][ViaNext]_vars

\* Each search called first
ModesSpecInit ==
    GetIdle /\ IterIdle /\ DbIdle /\ UpIdle /\ IngIdle /\ PoolIdle /\ EmbIdle /\ IxIdle /\ EntryIdle /\ RowIdle /\ CxIdle /\ EncIdle /\ WrIdle /\ TnIdle /\ AbsIdle /\ PgIdle /\ TtIdle /\ ZcIdle /\ ApIdle /\ LkIdle
    /\ ModesInit

ModesNext ==
    \/ CallSearchPapers
    \/ CallSearchPapersViaConcepts
    \/ CallSearchPapersHybridWeighted
    \/ CallSearchSourcesFromPapers

SpecModes == ModesSpecInit /\ [][ModesNext]_vars

\* A paginated search and the same search for another page
PagingNext ==
    \/ CallSearchPapersViaConcepts
    \/ CallSearchPapersHybridWeighted
    \/ CallSearchSourcesFromPapers
    \/ Repage

PagingSpecInit ==
    GetIdle /\ IterIdle /\ DbIdle /\ UpIdle /\ IngIdle /\ PoolIdle /\ EmbIdle /\ IxIdle /\ EntryIdle /\ RowIdle /\ CxIdle /\ EncIdle /\ WrIdle /\ TnIdle /\ AbsIdle /\ PgIdle /\ TtIdle /\ ZcIdle /\ ApIdle /\ LkIdle
    /\ PagingInit

SpecPaging == PagingSpecInit /\ [][PagingNext]_vars

EntrySpecInit ==
    GetIdle /\ IterIdle /\ DbIdle /\ UpIdle /\ IngIdle /\ PoolIdle /\ EmbIdle /\ IxIdle /\ SearchIdle
    /\ EntryInit /\ RowIdle /\ CxIdle /\ EncIdle /\ WrIdle /\ TnIdle /\ AbsIdle /\ PgIdle /\ TtIdle /\ ZcIdle /\ ApIdle /\ LkIdle

SpecEntry == EntrySpecInit /\ [][EntryNext]_vars

RowSpecInit ==
    GetIdle /\ IterIdle /\ DbIdle /\ UpIdle /\ IngIdle /\ PoolIdle /\ EmbIdle /\ IxIdle /\ SearchIdle
    /\ EntryIdle /\ RowInit /\ CxIdle /\ EncIdle /\ WrIdle /\ TnIdle /\ AbsIdle /\ PgIdle /\ TtIdle /\ ZcIdle /\ ApIdle /\ LkIdle

SpecRow == RowSpecInit /\ [][RowNext]_vars

ConnSpecInit ==
    GetIdle /\ IterIdle /\ DbIdle /\ UpIdle /\ IngIdle /\ PoolIdle /\ EmbIdle /\ IxIdle /\ SearchIdle
    /\ EntryIdle /\ RowIdle /\ CxInit /\ EncIdle /\ WrIdle /\ TnIdle /\ AbsIdle /\ PgIdle /\ TtIdle /\ ZcIdle /\ ApIdle /\ LkIdle

SpecConn == ConnSpecInit /\ [][ConnNext]_vars

OthersIdle ==
    GetIdle /\ IterIdle /\ DbIdle /\ UpIdle /\ IngIdle /\ PoolIdle /\ EmbIdle /\ IxIdle
    /\ SearchIdle /\ EntryIdle /\ RowIdle /\ CxIdle

EncodeSpecInit ==
    OthersIdle /\ EncInit /\ WrIdle /\ TnIdle /\ AbsIdle /\ PgIdle /\ TtIdle /\ ZcIdle /\ ApIdle /\ LkIdle

SpecEncode == EncodeSpecInit /\ [][EncNext]_vars

WriteSpecInit ==
    OthersIdle /\ EncIdle /\ WrInit /\ TnIdle /\ AbsIdle /\ PgIdle /\ TtIdle /\ ZcIdle /\ ApIdle /\ LkIdle

SpecWrite == WriteSpecInit /\ [][WriteNext]_vars

TunerSpecInit ==
    OthersIdle /\ EncIdle /\ WrIdle /\ TnInit /\ AbsIdle /\ PgIdle /\ TtIdle /\ ZcIdle /\ ApIdle /\ LkIdle

SpecTuner == TunerSpecInit /\ [][TunerNext]_vars

AbstractSpecInit ==
    OthersIdle /\ EncIdle /\ WrIdle /\ TnIdle /\ AbsInit /\ PgIdle /\ TtIdle /\ ZcIdle /\ ApIdle /\ LkIdle

SpecAbstract == AbstractSpecInit /\ [][AbstractNext]_vars

PageSpecInit ==
    OthersIdle /\ EncIdle /\ WrIdle /\ TnIdle /\ AbsIdle /\ PgInit /\ TtIdle /\ ZcIdle /\ ApIdle /\ LkIdle

SpecPage == PageSpecInit /\ [][PageNext]_vars

TitleSpecInit ==
    OthersIdle /\ EncIdle /\ WrIdle /\ TnIdle /\ AbsIdle /\ PgIdle /\ TtInit /\ ZcIdle /\ ApIdle /\ LkIdle

SpecTitle == TitleSpecInit /\ [][TitleNext]_vars

ZcSpecInit ==
    OthersIdle /\ EncIdle /\ WrIdle /\ TnIdle /\ AbsIdle /\ PgIdle /\ TtIdle /\ ZcInit /\ ApIdle /\ LkIdle

SpecNoConcept == ZcSpecInit /\ [][ZcNext]_vars

ApiSpecInit ==
    OthersIdle /\ EncIdle /\ WrIdle /\ TnIdle /\ AbsIdle /\ PgIdle /\ TtIdle /\ ZcIdle /\ ApInit /\ LkIdle

SpecApi == ApiSpecInit /\ [][ApiNext]_vars

LeakSpecInit ==
    OthersIdle /\ EncIdle /\ WrIdle /\ TnIdle /\ AbsIdle /\ PgIdle /\ TtIdle /\ ZcIdle /\ ApIdle /\ LkInit

SpecLeak == LeakSpecInit /\ [][LeakNext]_vars

(***************************************************************************)
(* Claims about _get                                                       *)
(***************************************************************************)
Last(seq) == seq[Len(seq)]

AllRetry(h) == \A i \in 1..Len(h) : h[i] = 429 \/ (500 <= h[i] /\ h[i] < 600)

IsPermanent4xx(status) == 400 <= status /\ status < 500 /\ status # 429

\* C5: one call of _get issues at most 5 HTTP requests; it returns at the
\* first response that is neither 429 nor 5xx and is successful; when all of
\* five responses are 429 or 5xx it raises the 5th response's HTTP error; a
\* call that has not ended can always take a step, and ends within the loop
\* bound.
C5_GetBounded ==
    /\ get_requests <= 5
    /\ attempt <= 5 + 1
    /\ get_result.kind = "returned" =>
          /\ get_history # <<>>
          /\ get_result.status = <<Last(get_history)>>
          /\ Last(get_history) < 400
          /\ AllRetry(SubSeq(get_history, 1, Len(get_history) - 1))
    /\ (Len(get_history) = 5 /\ AllRetry(get_history)) =>
          /\ get_requests = 5
          /\ get_result.kind # "returned"
          /\ get_result.kind = "raised" =>
                get_result = Raised("HTTPError", <<get_history[5]>>)
    /\ get_result.kind = "running" => ENABLED GetNext
    /\ get_result.kind # "running" => ~ENABLED GetNext

C5_Witness ==
    /\ Len(get_history) = 5
    /\ AllRetry(get_history)
    /\ get_history[1] = 429
    /\ get_result = Raised("HTTPError", <<503>>)

\* C6: a response with a 4xx status other than 429 ends the call at once with
\* an HTTP error: no request follows it, no sleep is made for it, and when it
\* is the first response the call has made exactly one request and no sleep.
C6_NoRetryOn4xx ==
    \A i \in 1..Len(get_history) :
        IsPermanent4xx(get_history[i]) =>
            /\ i = Len(get_history)
            /\ get_requests = i
            /\ Len(get_sleeps) = i - 1
            /\ get_result = Raised("HTTPError", <<get_history[i]>>)
            /\ ~ENABLED GetNext

C6_Witness ==
    /\ get_history = <<404>>
    /\ get_requests = 1
    /\ get_sleeps = <<>>
    /\ get_result.kind = "raised"

(***************************************************************************)
(* Claims about iter_works_for_concept                                     *)
(***************************************************************************)
RECURSIVE ConcatResults(_)
ConcatResults(pages) ==
    IF pages = <<>> THEN <<>>
    ELSE ConcatResults(SubSeq(pages, 1, Len(pages) - 1)) \o Last(pages).results

IsPrefix(a, b) == Len(a) <= Len(b) /\ SubSeq(b, 1, Len(a)) = a

\* C7: the generator issues at most `pages` page requests, the first with
\* cursor "*" and each later one with the previous response's next_cursor;
\* the works are yielded in provider order, all works of a page before the
\* next request; no request follows a page with no results or no
\* next_cursor; the generator ends after finitely many works.
C7_IterPagination ==
    /\ Len(it_requests) <= it_pages
    /\ it_requests # <<>> => it_requests[1] = "*"
    /\ \A k \in 2..Len(it_requests) :
          /\ k - 1 <= Len(it_responses)
          /\ it_requests[k] = it_responses[k - 1].next_cursor
    /\ IsPrefix(it_yielded, ConcatResults(it_responses))
    /\ it_responses # <<>> =>
          IsPrefix(ConcatResults(SubSeq(it_responses, 1, Len(it_responses) - 1)),
                   it_yielded)
    /\ it_pc = "loop" => it_yielded = ConcatResults(it_responses)
    /\ \A k \in 1..(Len(it_responses) - 1) :
          /\ it_responses[k].results # <<>>
          /\ it_responses[k].next_cursor # NULL
    /\ it_pc = "done" =>
          /\ it_yielded = ConcatResults(it_responses)
          /\ \/ Len(it_requests) = it_pages
             \/ it_pages <= 0
             \/ Last(it_responses).results = <<>>
             \/ Last(it_responses).next_cursor = NULL
    /\ Len(it_yielded) <= it_pages * MaxPerPage
    /\ it_pc \in {"loop", "yield", "advance"} => ENABLED IterNext

C7_Witness ==
    /\ it_pc = "done"
    /\ it_pages = 2
    /\ it_requests = <<"*", "c1">>
    /\ Len(it_yielded) = 3
    /\ it_responses[2].next_cursor # NULL

(***************************************************************************)
(* Claims about upsert_paper                                               *)
(***************************************************************************)
SharesDoi(r1, r2) == r1.doi # NULL /\ r1.doi = r2.doi

SharesOpenalex(r1, r2) ==
    /\ r1.external_ids["openalex"] # NULL
    /\ r1.external_ids["openalex"] = r2.external_ids["openalex"]

\* C2: after any sequence of upsert_paper calls no two rows of papers share
\* a non-null DOI and no two rows share external_ids.openalex.
C2_UniquePaperKeys ==
    \A r1, r2 \in txn.papers :
        r1.id # r2.id => ~SharesDoi(r1, r2) /\ ~SharesOpenalex(r1, r2)

C3_PerWorkAtomic ==
    ing_outcome # "idle" =>
        LET whole == {x.db : x \in IngestWorks(ing_start, ing_works, ing_count)} IN
        IF ing_outcome = "ok"
        THEN committed \in {MarkConceptIngested(d, IngestConcept, IngestPages) :
                                d \in whole}
        ELSE committed \in whole

\* A run failed on its second work after that work's authors and paper were
\* written in the transaction, the first work being committed.
C3_Witness ==
    /\ ing_outcome = "failed"
    /\ ing_count = 1
    /\ ing_pc = "links"
    /\ Len(ing_author_ids) > 0
    /\ ~ \E r \in committed.papers : r.id = ing_paper_id
    /\ committed.papers # {}

RunOver == emb_pc = "finished"

CleanRun == RunOver /\ emb_args.limit = NoLimit /\ ~emb_failed

\* C8: a paper that has an embedding row for the model label is neither
\* selected nor sent to the encoder; after a finished run without limit and
\* without encoder failure every paper with text has a row for the label;
\* such a run made right after such a run and the deletion of one embedding
\* sends the encoder exactly one batch, holding the deleted id alone; a run
\* made right after such a run sends the encoder nothing.
C8_EmbedResumable ==
    /\ \A j \in 1..Len(emb_ids) : emb_ids[j] \notin emb_had
    /\ \A k \in 1..Len(emb_calls) :
          \A j \in 1..Len(emb_calls[k]) : emb_calls[k][j] \notin emb_had
    /\ CleanRun =>
          \A id \in DOMAIN emb_store :
              BuildPaperText(emb_store[id]) # NoText =>
                  <<id, SEMANTIC_SEARCH_MODEL_NAME>> \in emb_rows
    /\ (CleanRun /\ emb_ctx = "clean_then_delete") =>
          emb_calls = << <<emb_deleted>> >>
    /\ (RunOver /\ emb_ctx = "clean") => emb_calls = <<>>

\* A run without limit embedded papers in batches, one embedding was
\* deleted, and the next run has finished after one encoder batch of one.
C8_Witness ==
    /\ CleanRun
    /\ emb_ctx = "clean_then_delete"
    /\ emb_calls = << <<emb_deleted>> >>
    /\ Cardinality({id \in DOMAIN emb_store :
                      <<id, SEMANTIC_SEARCH_MODEL_NAME>> \in emb_rows}) >= 2
    /\ \E id \in DOMAIN emb_store : BuildPaperText(emb_store[id]) = NoText

(***************************************************************************)
(* Claims about the index tuner cache                                      *)
(***************************************************************************)
\* C9: for each index kind the tuner runs at most once in the process, also
\* when searches run in several threads, and a search that finds the cache
\* initialized does not run the tuner.
C9_TunerOncePerProcess ==
    /\ \A k \in IndexKinds : ix_tuned[k] <= 1
    /\ \A t \in Threads :
          ix_pc[t] = "tune" => ~INDEX_TUNING[ix_kind[t]].initialized

(***************************************************************************)
(* Claims about the hybrid search                                          *)
(***************************************************************************)
Ids(results) == [i \in DOMAIN results |-> results[i].paper_id]

PaperOnly == s_req.paper_weight = RatOne /\ s_req.concept_weight = RatZero
ConceptOnly == s_req.paper_weight = RatZero /\ s_req.concept_weight = RatOne

\* C10 as stated: search_papers_hybrid with weights (1, 0) returns the
\* papers of search_papers with the same limit and offset, in the same
\* order; with weights (0, 1) it returns the papers of
\* search_papers_via_concepts with the same arguments, in the same order.
C10_HybridEqualsLeg ==
    s_pc = "hybrid" =>
        /\ PaperOnly => Ids(s_hybrid.papers) = Ids(s_papers)
        /\ ConceptOnly => Ids(s_hybrid.papers) = Ids(s_via.papers)

\* No two embedded papers are at the same distance from the query.
DistinctDistances ==
    \A p, q \in PaperIds :
        (p # q /\ s_store.dist[p] # NoVec /\ s_store.dist[q] # NoVec)
            => s_store.dist[p] # s_store.dist[q]

TopConcepts == CHOOSE cs \in SearchConcepts(s_store, s_req.top_k_concepts) : TRUE

\* No top concept is held by more than top_k_papers_per_concept papers.
NoTruncation ==
    \A i \in DOMAIN TopConcepts :
        Cardinality({p \in PaperIds : s_store.concepts[p][TopConcepts[i].concept_id] # NoScore})
            <= s_req.top_k_papers_per_concept

FullConceptScore(p) == MissingConceptScore(s_store, p, TopConcepts, s_req.top_k_concepts)

\* No two papers have the same concept score, unless it is 0.
DistinctConceptScores ==
    \A p, q \in PaperIds :
        (p # q /\ ~RatEq(FullConceptScore(p), RatZero))
            => ~RatEq(FullConceptScore(p), FullConceptScore(q))

\* C10, amended: when no two embedded papers are equally distant,
\* search_papers_hybrid with weights (1, 0) returns the page of search_papers
\* followed only by papers that have no embedding; when no top concept is
\* held by more than top_k_papers_per_concept papers and no two papers have
\* the same non-zero concept score, search_papers_hybrid with weights (0, 1)
\* returns the page of search_papers_via_concepts followed only by papers of
\* concept score 0.
C10_HybridExtendsLeg ==
    s_pc = "hybrid" =>
        /\ (PaperOnly /\ DistinctDistances) =>
              /\ IsPrefix(Ids(s_papers), Ids(s_hybrid.papers))
              /\ \A i \in (Len(s_papers) + 1)..Len(s_hybrid.papers) :
                    s_store.dist[s_hybrid.papers[i].paper_id] = NoVec
        /\ (ConceptOnly /\ NoTruncation /\ DistinctConceptScores) =>
              /\ IsPrefix(Ids(s_via.papers), Ids(s_hybrid.papers))
              /\ \A i \in (Len(s_via.papers) + 1)..Len(s_hybrid.papers) :
                    RatEq(s_hybrid.papers[i].concept_score, RatZero)

\* The concept-only hybrid search, at offset 1, returned the page of
\* search_papers_via_concepts and one more paper.
C10_Witness ==
    /\ s_pc = "hybrid"
    /\ ConceptOnly /\ NoTruncation /\ DistinctConceptScores
    /\ s_req.offset = 1
    /\ Len(s_via.papers) = 1
    /\ Len(s_hybrid.papers) = 2

\* The paper-only hybrid search returned the page of search_papers and one
\* more paper.
C10_WitnessPaperOnly ==
    /\ s_pc = "hybrid"
    /\ PaperOnly /\ DistinctDistances
    /\ Len(s_papers) = 1
    /\ Len(s_hybrid.papers) = 2

(***************************************************************************)
(* Claims about the concept-mediated search                                *)
(***************************************************************************)
\* The concepts of the result under which paper p is listed
ListedUnder(p) ==
    {i \in DOMAIN s_via.concepts :
        \E n \in DOMAIN s_via.concepts[i].papers : s_via.concepts[i].papers[n].paper_id = p}

\* The matching_score of paper p in the list of concept i
ListedScore(i, p) ==
    (CHOOSE e \in SeqRange(s_via.concepts[i].papers) : e.paper_id = p).matching_score

\* C11: search_papers_via_concepts returns at most top_k_concepts concepts,
\* lists at most top_k_papers_per_concept papers under each, every listed
\* matching_score is concept similarity x concept score in the paper, and
\* every returned paper has total_score = (sum of its matching_score over
\* the concepts it is listed under) / top_k_concepts.
C11_ViaConceptsScores ==
    s_pc = "via" =>
        /\ Len(s_via.concepts) <= s_req.top_k_concepts
        /\ \A i \in DOMAIN s_via.concepts :
              /\ Len(s_via.concepts[i].papers) <= s_req.top_k_papers_per_concept
              /\ \A n \in DOMAIN s_via.concepts[i].papers :
                    LET e == s_via.concepts[i].papers[n]
                    IN /\ s_store.concepts[e.paper_id][s_via.concepts[i].concept_id] # NoScore
                       /\ RatEq(e.matching_score,
                                RatMul(s_via.concepts[i].similarity,
                                       s_store.concepts[e.paper_id][s_via.concepts[i].concept_id]))
        /\ \A n \in DOMAIN s_via.papers :
              LET p == s_via.papers[n].paper_id
              IN RatEq(s_via.papers[n].total_score,
                       RatDivInt(RatSum({<<i, ListedScore(i, p)>> : i \in ListedUnder(p)}),
                                 s_req.top_k_concepts))

\* The search took two concepts, cut the list of one of them to
\* top_k_papers_per_concept papers, and returned a paper listed under only
\* one concept.
C11_Witness ==
    /\ s_pc = "via"
    /\ s_req.top_k_concepts = 2
    /\ Len(s_via.concepts) = 2
    /\ \E i \in DOMAIN s_via.concepts :
          Len(s_via.concepts[i].papers) <
             Cardinality({p \in PaperIds : s_store.concepts[p][s_via.concepts[i].concept_id] # NoScore})
    /\ \E n \in DOMAIN s_via.papers : Cardinality(ListedUnder(s_via.papers[n].paper_id)) = 1

(***************************************************************************)
(* Claims about the source search                                          *)
(***************************************************************************)
\* The positions of the hybrid result whose paper has source_id sid
PapersOfSource(sid) == {i \in DOMAIN s_hybrid.papers : s_hybrid.papers[i].source_id = sid}

NonIncreasing(scores) ==
    \A i \in DOMAIN scores : i + 1 \in DOMAIN scores => RatLE(scores[i + 1], scores[i])

\* C12: every source returned by search_sources_from_papers has
\* aggregate_score = the sum of combined_score over the hybrid-result papers
\* of that source, lists each of those papers exactly once, is not the
\* missing source_id, and the sources come by non-increasing aggregate_score.
C12_SourceAggregate ==
    s_pc = "sources" =>
        /\ \A n \in DOMAIN s_sources.sources :
              LET e == s_sources.sources[n]
              IN /\ e.source_id # NULL
                 /\ RatEq(e.aggregate_score,
                          RatSum({<<i, s_hybrid.papers[i].combined_score>> :
                                     i \in PapersOfSource(e.source_id)}))
                 /\ SeqRange(e.papers) =
                       {Str(s_hybrid.papers[i].paper_id) : i \in PapersOfSource(e.source_id)}
                 /\ Len(e.papers) = Cardinality(PapersOfSource(e.source_id))
        /\ NonIncreasing([n \in DOMAIN s_sources.sources |->
                             s_sources.sources[n].aggregate_score])

\* Two sources were returned, the first with two papers and the greater
\* aggregate_score, although the best paper belongs to the second.
C12_Witness ==
    /\ s_pc = "sources"
    /\ Len(s_sources.sources) = 2
    /\ Len(s_sources.sources[1].papers) = 2
    /\ ~RatLE(s_sources.sources[1].aggregate_score, s_sources.sources[2].aggregate_score)
    /\ s_hybrid.papers[1].source_id = s_sources.sources[2].source_id

(***************************************************************************)
(* Claims about every search mode                                          *)
(***************************************************************************)
\* C13: every search returns at most limit entries, in non-increasing order
\* of its score: search_papers by similarity, search_papers_via_concepts by
\* total_score, search_papers_hybrid by combined_score, which is
\* paper_weight x paper_score + concept_weight x concept_score in every row,
\* search_sources_from_papers by aggregate_score.
C13_ResultsOrdered ==
    /\ s_pc = "papers" =>
          /\ Len(s_papers) <= s_req.limit
          /\ NonIncreasing([n \in DOMAIN s_papers |-> s_papers[n].similarity])
    /\ s_pc = "via" =>
          /\ Len(s_via.papers) <= s_req.limit
          /\ NonIncreasing([n \in DOMAIN s_via.papers |-> s_via.papers[n].total_score])
    /\ s_pc = "hybrid" =>
          /\ Len(s_hybrid.papers) <= s_req.limit
          /\ NonIncreasing([n \in DOMAIN s_hybrid.papers |-> s_hybrid.papers[n].combined_score])
          /\ \A n \in DOMAIN s_hybrid.papers :
                RatEq(s_hybrid.papers[n].combined_score,
                      RatAdd(RatMul(s_req.paper_weight, s_hybrid.papers[n].paper_score),
                             RatMul(s_req.concept_weight, s_hybrid.papers[n].concept_score)))
    /\ s_pc = "sources" =>
          /\ Len(s_sources.sources) <= s_req.limit
          /\ NonIncreasing([n \in DOMAIN s_sources.sources |->
                               s_sources.sources[n].aggregate_score])

\* A hybrid search with both weights positive returned first a paper that
\* has neither the greatest paper_score nor the greatest concept_score of
\* the papers of the store.
C13_Witness ==
    /\ s_pc = "hybrid"
    /\ s_req.paper_weight # RatOne
    /\ Len(s_hybrid.papers) = 2
    /\ ~RatLE(s_hybrid.papers[2].paper_score, s_hybrid.papers[1].paper_score)
    /\ ~RatLE(s_hybrid.papers[1].combined_score, s_hybrid.papers[2].combined_score)
    /\ \E p \in PaperIds :
          ~RatLE(MissingConceptScore(s_store, p,
                    CHOOSE cs \in SearchConcepts(s_store, s_req.top_k_concepts) : TRUE,
                    s_req.top_k_concepts),
                 s_hybrid.papers[1].concept_score)


(***************************************************************************)
(* Claims about the weights handed to the hybrid search                    *)
(***************************************************************************)
Normalising == e_pc = "done" /\ e_call.entry \in {"api", "cli"} /\ e_used # <<>>

\* C14: when the caller's paper_weight and concept_weight do not sum to 1,
\* the weights used are (1 - concept_weight, concept_weight) if paper_weight
\* is 0.4 and (paper_weight, 1 - paper_weight) otherwise, so that they sum
\* to 1 and (0.4, 0.4) becomes (0.6, 0.4); weights that sum to 1 are used
\* unchanged.
C14_WeightsNormalized ==
    Normalising =>
        LET pw == e_call.paper_weight
            cw == e_call.concept_weight
        IN  /\ pw + cw = One => e_used = <<pw, cw>>
            /\ pw + cw # One /\ pw = LegacyWeight => e_used = <<One - cw, cw>>
            /\ pw + cw # One /\ pw # LegacyWeight => e_used = <<pw, One - pw>>
            /\ e_used[1] + e_used[2] = One
            /\ pw = 4 /\ cw = 4 => e_used = <<6, 4>>

C14_Witness ==
    /\ Normalising
    /\ e_call.type = "hybrid"
    /\ e_call.paper_weight = 4 /\ e_call.concept_weight = 4
    /\ e_used = <<6, 4>>
    /\ e_outcome = "rows"


(***************************************************************************)
(* Claims about the totals of the paginated searches                       *)
(***************************************************************************)
Repaged == s_prev # <<>>

ReportedTotal ==
    CASE s_pc = "via" -> s_via.total_papers
      [] s_pc = "hybrid" -> s_hybrid.total_papers
      [] s_pc = "sources" -> s_sources.total_sources
      [] OTHER -> 0

ReturnedPage ==
    CASE s_pc = "via" -> s_via.papers
      [] s_pc = "hybrid" -> s_hybrid.papers
      [] s_pc = "sources" -> s_sources.sources
      [] OTHER -> <<>>

\* C15: for a fixed query and store the total reported by a paginated search
\* (total_papers of search_papers_via_concepts and search_papers_hybrid,
\* total_sources of search_sources_from_papers) is the same for every offset,
\* and the returned list is empty whenever offset >= that total.
C15_TotalSameOnEveryPage ==
    Repaged =>
        /\ ReportedTotal = s_prev[1]
        /\ s_req.offset >= ReportedTotal => ReturnedPage = <<>>

\* A second call of the hybrid search, with the same limit and a greater
\* offset, reports more papers than the first
C15_HybridTotalGrows ==
    /\ Repaged
    /\ s_pc = "hybrid"
    /\ ReportedTotal > s_prev[1]


(***************************************************************************)
(* Claims about the empty query                                            *)
(***************************************************************************)
EmptyQueryAnswered == e_pc = "done" /\ Strip(e_call.query) = <<>>

\* C16: for an empty or whitespace-only query every search entry point
\* returns the empty result, does not raise and never calls the encoder.
C16_EmptyQueryEmptyResult ==
    EmptyQueryAnswered => e_outcome = "empty" /\ e_encoded = <<>>

\* What the code does: semantic_search and the /api/search/papers view answer
\* an empty or whitespace-only query themselves, without the encoder.
C16_GuardedEntryPoints ==
    EmptyQueryAnswered /\ e_call.entry \in {"semantic_search", "view"}
        => e_outcome = "empty" /\ e_encoded = <<>>

\* search_papers called with the empty query: embedded, rows returned
C16_EmptyQueryEncoded ==
    /\ EmptyQueryAnswered
    /\ e_call.entry = "search.py" /\ e_call.type = "search_papers"
    /\ e_call.query = <<>>
    /\ e_encoded = << <<>> >>
    /\ e_outcome = "rows"


(***************************************************************************)
(* Claims about the scores of papers.concepts                              *)
(***************************************************************************)
RowWritten == pc_row # NoRow /\ pc_count > 0

\* C17: after any sequence of ingestions and enrichments every entry of the
\* stored concepts map of a paper has a score s with 0 < s <= 1.
C17_ScoresInUnitRange ==
    RowWritten => \A e \in pc_row : 0 < e.score /\ e.score <= One

\* What the code keeps: every stored score is positive, and is the greatest
\* score the provider gave for that concept id.
C17_ScoresPositive ==
    RowWritten =>
        \A e \in pc_row :
            /\ e.score > 0
            /\ pc_last # "ingest by openalex id" =>
                 /\ \E i \in DOMAIN pc_given : pc_given[i] = [id |-> e.id, score |-> <<e.score>>]
                 /\ \A i \in DOMAIN pc_given :
                      pc_given[i].id = e.id /\ pc_given[i].score # <<>>
                          => pc_given[i].score[1] <= e.score

\* A provider score of 1.5 is stored by enrich_single_paper
C17_ScoreAboveOne ==
    /\ RowWritten
    /\ pc_last = "enrich"
    /\ \E e \in pc_row : e.score = 15


(***************************************************************************)
(* Claims about upsert_paper on a paper that is already stored             *)
(***************************************************************************)
HitExisting ==
    /\ up_last.op = "paper"
    /\ \E r \in up_last.before.papers : r.id = up_last.id

StoredBefore == CHOOSE r \in up_last.before.papers : r.id = up_last.id

StoredAfter == CHOOSE r \in txn.papers : r.id = up_last.id

\* C18: when upsert_paper hits an existing paper, by DOI or by openalex id,
\* the stored external_ids afterwards hold exactly the namespaces stored
\* before and those of the incoming paper: none stored before is lost.
C18_ExternalIdsUnion ==
    HitExisting =>
        \A n \in Namespaces :
            StoredAfter.external_ids[n] # NULL
                <=> \/ StoredBefore.external_ids[n] # NULL
                    \/ up_last.arg.external_ids[n] # NULL

\* What the code does: the union is kept when the paper is found by its
\* openalex id; when it is found by its DOI the stored external_ids are
\* those of the incoming paper.
C18_MergedByOpenalexIdOnly ==
    HitExisting =>
        IF TakesDoiBranch(up_last.arg)
        THEN StoredAfter.external_ids = up_last.arg.external_ids
        ELSE StoredAfter.external_ids
                = JsonMerge(StoredBefore.external_ids, up_last.arg.external_ids)

\* A paper found by its DOI loses the pmid stored before
C18_NamespaceLost ==
    /\ HitExisting
    /\ TakesDoiBranch(up_last.arg)
    /\ StoredBefore.external_ids["pmid"] # NULL
    /\ StoredAfter.external_ids["pmid"] = NULL

\* C19: when upsert_paper hits an existing paper whose venue linkage is
\* non-null, the stored linkage is left unchanged whatever the incoming
\* paper carries; it is taken from the incoming paper only when the stored
\* value is null.
C19_LinkageKept ==
    HitExisting =>
        /\ StoredAfter.venue_id
              = IF StoredBefore.venue_id # NULL
                THEN StoredBefore.venue_id ELSE up_last.venue[1]
        /\ StoredAfter.venue_instance_id
              = IF StoredBefore.venue_instance_id # NULL
                THEN StoredBefore.venue_instance_id ELSE up_last.venue[2]

\* What the code does: COALESCE(new, old) lets a non-null incoming linkage
\* win; the stored one is kept only when the incoming one is null and the
\* paper was found by its openalex id (ON CONFLICT (doi) has already set
\* it to the incoming value otherwise).
C19_IncomingLinkageWins ==
    HitExisting =>
        StoredAfter.venue_id
            = IF up_last.venue[1] # NULL \/ TakesDoiBranch(up_last.arg)
              THEN up_last.venue[1] ELSE StoredBefore.venue_id

\* A stored linkage V1 replaced by the incoming V2
C19_LinkageReplaced ==
    /\ HitExisting
    /\ StoredBefore.venue_id = "V1"
    /\ up_last.venue[1] = "V2"
    /\ StoredAfter.venue_id = "V2"


(***************************************************************************)
(* Claims about the cursor row of a concept                                *)
(***************************************************************************)
LastWorkCommitted ==
    /\ ing_outcome # "idle"
    /\ Len(ing_works) > 0
    /\ ing_count = Len(ing_works)

CursorCommitted == \E r \in committed.ingested : r.concept_id = IngestConcept

\* C20: the cursor row of the concept is upserted in the same transaction as
\* the last writes of the task: in no committed state, and at no crash
\* point, is the last work of the task stored without the cursor row.
C20_CursorWithLastWork == LastWorkCommitted => CursorCommitted

\* What the code does: a run that completes has committed the cursor row,
\* and the row is never committed before the last work of the first run.
C20_CursorAfterLastWork ==
    /\ ing_outcome = "ok" => CursorCommitted
    /\ CursorCommitted /\ ing_run = 1 => ing_count = Len(ing_works)

\* The process dies after the commit of the last work and before that of the
\* cursor row
C20_CrashBeforeCursor ==
    /\ LastWorkCommitted
    /\ ing_outcome = "crashed"
    /\ committed.papers # {}
    /\ ~CursorCommitted


(***************************************************************************)
(* Claims about the tasks of ingest_openalex_concepts                      *)
(***************************************************************************)
InputIds == {pool_args.concept_ids[i] : i \in DOMAIN pool_args.concept_ids}

IngestedIds == {r.concept_id : r \in committed.ingested}

WantedIds == IF pool_args.skip_existing THEN InputIds \ IngestedIds ELSE InputIds

\* C21: the call of ingest_openalex_concepts submits one task for every
\* distinct concept id of the input, leaving out, when skip_existing is set,
\* the ids present in openalex_ingested_concepts; no other task exists, and
\* a task that has started never starts again.
C21_OneTaskPerWantedConcept ==
    [][/\ pool_pc = "idle" /\ pool_pc' # "idle" =>
            /\ \A c \in PoolConcepts : pool_task'[c] = "queued" <=> c \in WantedIds
            /\ \A c \in PoolConcepts : pool_task'[c] \in {"queued", "none"}
            /\ Len(pool_ids') = Cardinality(WantedIds)
            /\ \A c \in WantedIds : \E i \in DOMAIN pool_ids' : pool_ids'[i] = c
       /\ \A c \in PoolConcepts :
            /\ pool_task[c] = "none" /\ pool_pc # "idle" => pool_task'[c] = "none"
            /\ pool_task[c] \in {"running", "marking", "finished", "collected"}
                  => pool_task'[c] \in {"running", "marking", "finished", "collected"}
      ]_vars

\* An input with a duplicate and an id already ingested, skip_existing set:
\* the ingested id has no task, another id is running
C21_Witness ==
    /\ pool_pc = "running"
    /\ pool_args.skip_existing
    /\ Len(pool_args.concept_ids) > Cardinality(InputIds)
    /\ \E c \in InputIds : c \in IngestedIds /\ pool_task[c] = "none"
    /\ \E c \in InputIds : pool_task[c] \in {"running", "marking"}


RunningTasks == {c \in DOMAIN pool_task : pool_task[c] \in {"running", "marking"}}

\* C22: at no time are more than 8 concept-ingestion tasks running
\* concurrently, whatever max_workers the caller passes and however many
\* concepts are submitted.
C22_AtMostEightRunning == Cardinality(RunningTasks) <= 8

\* What the code does: the tasks running are at most min(number of concepts
\* to ingest, max_workers).
C22_RunningWithinPool ==
    /\ Cardinality(RunningTasks) <= pool_workers
    /\ pool_pc = "running" => pool_workers = Min(Len(pool_ids), pool_args.max_workers)

\* Nine tasks running at once
C22_NineRunning ==
    /\ pool_pc = "running"
    /\ pool_args.max_workers = 9
    /\ Cardinality(RunningTasks) = 9


(***************************************************************************)
(* Claims about the DDL of the tracking table                              *)
(***************************************************************************)
MarkingTasks == {c \in DOMAIN pool_task : pool_task[c] = "marking"}

DdlCount == pool_ddl.up_front + pool_ddl.caller + Cardinality(pool_ddl.workers)

\* C23: during a parallel ingestion the DDL that creates
\* openalex_ingested_concepts is executed exactly once, before the pool
\* starts, and never inside a worker task: no two threads issue it
\* concurrently.
C23_DdlOnceUpFront ==
    pool_pc \in {"running", "done"} =>
        /\ DdlCount = 1
        /\ pool_ddl.up_front = 1
        /\ pool_ddl.workers = {}
        /\ Cardinality(MarkingTasks) <= 1

\* What the code does: one execution up front, one more on the calling
\* thread when skip_existing is set, and one in every task that reaches its
\* mark.
C23_DdlInEveryMark ==
    pool_pc \in {"running", "done"} =>
        /\ pool_ddl.up_front = 1
        /\ pool_ddl.caller = IF pool_args.skip_existing THEN 1 ELSE 0
        /\ \A c \in DOMAIN pool_task :
              pool_task[c] = "marking" \/ pool_future[c] = WorkerReturn(c, FALSE)
                  => c \in pool_ddl.workers

\* Two tasks have issued the DDL on their connections and not yet committed
C23_TwoWorkersInDdl ==
    /\ pool_pc = "running"
    /\ Cardinality(MarkingTasks) = 2
    /\ MarkingTasks \subseteq pool_ddl.workers


(***************************************************************************)
(* Claims about the cursors of the worker tasks                            *)
(***************************************************************************)
Started(i) == cx_task[i].state # "queued"

\* C24: every worker task (concept ingestion and concept, author and paper
\* enrichment) uses a connection and cursor of its own for the whole task:
\* no cursor is ever used by two threads.
C24_OwnCursorPerTask ==
    /\ \A i \in DOMAIN cx_task : Started(i) => cx_task[i].cursor = i
    /\ \A u, v \in cx_users : u[1] = v[1] => u[2] = v[2]

\* What the code does: a task of ingest_openalex_concepts works on the
\* cursor it opened, which no other thread uses; every enrichment task works
\* on the cursor of the caller.
C24_OwnCursorWhenIngesting ==
    /\ cx_kind = "ingest" =>
          /\ \A i \in DOMAIN cx_task : Started(i) => cx_task[i].cursor = i
          /\ \A u, v \in cx_users : u[1] = v[1] => u[2] = v[2]
    /\ cx_kind \in PoolKinds \ {"ingest"} =>
          \A i \in DOMAIN cx_task : Started(i) => cx_task[i].cursor = CallerCursor

\* Two paper-enrichment tasks on two threads are inside cur.execute of the
\* caller's cursor
C24_SharedCursorInUse ==
    /\ cx_kind = "enrich_papers"
    /\ \E i, j \in DOMAIN cx_task :
        /\ i # j
        /\ cx_task[i].state = "executing" /\ cx_task[j].state = "executing"
        /\ cx_task[i].thread # cx_task[j].thread
        /\ cx_task[i].cursor = CallerCursor /\ cx_task[j].cursor = CallerCursor
    /\ <<CallerCursor, "main">> \in cx_users


(***************************************************************************)
(* Claims about the batch loop of _embed_missing_entities                  *)
(***************************************************************************)
\* C25: for each embedding batch the encoder is called at most 3 times,
\* with a wait of 2 s after the first failure and 4 s after the second; when
\* the third call fails no row is written for the batch, the failure is
\* logged, and the run goes on to process every following batch.
C25_ThreeAttemptsThenSkip ==
    /\ \A b \in DOMAIN en_hist :
        LET h == en_hist[b] IN
        /\ h.calls <= 3
        /\ h.sleeps \in {<<>>, <<2>>, <<2, 4>>}
        /\ Len(h.sleeps) = IF h.outcome \in {"ok", "mismatch"} THEN h.calls - 1
                           ELSE IF h.outcome = "failed" THEN 2
                           ELSE h.calls
        /\ h.outcome = "failed" =>
              /\ h.calls = 3
              /\ b \in en_log
              /\ BatchIds(b) \cap (en_txn \cup en_committed) = {}
        /\ (h.outcome = "failed" /\ en_pc = "done") =>
              \A later \in DOMAIN en_hist :
                  later > b => /\ en_hist[later].calls >= 1
                               /\ en_hist[later].outcome # "pending"
    /\ en_pc = "done" =>
          en_committed = UNION {BatchIds(b) : b \in {x \in DOMAIN en_hist :
                                                        en_hist[x].outcome = "ok"}}

\* A finished run whose first batch failed on its third encoder call and
\* whose following batch was encoded on the third call, after waits of 2 s
\* and 4 s, and stored.
C25_Witness ==
    /\ en_pc = "done"
    /\ en_hist[0].outcome = "failed"
    /\ en_hist[0].sleeps = <<2, 4>>
    /\ \E b \in DOMAIN en_hist :
        /\ b > 0
        /\ en_hist[b].outcome = "ok"
        /\ en_hist[b].calls = 3
        /\ en_hist[b].sleeps = <<2, 4>>
        /\ BatchIds(b) \subseteq en_committed

\* C26: the run commits after every batch: wherever it stands or crashes,
\* every batch but the one being encoded or written whose encoding succeeded
\* has all its rows committed, so that at most one encoded batch is without
\* its rows, and no batch is committed in part.
C26_CommittedPerBatch ==
    LET encoded == {b \in DOMAIN en_hist : en_hist[b].outcome = "ok"}
        current == IF en_pc \in {"encode", "insert", "crashed"} THEN {en_i} ELSE {}
        lost == {b \in encoded : ~ (BatchIds(b) \subseteq en_committed)}
    IN /\ \A b \in encoded \ current : BatchIds(b) \subseteq en_committed
       /\ Cardinality(lost) <= 1
       /\ \A b \in DOMAIN en_hist :
             BatchIds(b) \subseteq en_committed \/ BatchIds(b) \cap en_committed = {}

\* The run crashed while it was writing its second batch, one row of which
\* had been inserted; the first batch is committed, the second is not.
C26_Witness ==
    /\ en_pc = "crashed"
    /\ en_i > 0
    /\ en_hist[en_i].outcome = "ok"
    /\ en_j >= 1
    /\ en_hist[0].outcome = "ok"
    /\ BatchIds(0) \subseteq en_committed
    /\ BatchIds(en_i) \cap en_committed = {}


(***************************************************************************)
(* Claims about _insert_embeddings_batch                                   *)
(***************************************************************************)
WrittenKeys == {<<id, wr_last.label>> : id \in wr_last.ids}

\* C27: writing an embedding for (entity, label L2) never modifies or
\* removes the stored row for (entity, L1) with L1 # L2, and a conflict on
\* (entity, label) only replaces the vector and the timestamp of that one
\* row: after a call every row stored before under another key is there
\* unchanged, and every key stored before is still stored.
C27_OtherLabelsKept ==
    wr_last # NoCall =>
        /\ \A r \in wr_last.before :
              <<r.id, r.label>> \notin WrittenKeys => r \in wr_table
        /\ \A r \in wr_last.before :
              \E r2 \in wr_table : r2.id = r.id /\ r2.label = r.label

\* What _insert_embeddings_batch of semantic/embeddings.py does: rows under
\* other keys stay as they were, a written key has one row holding the new
\* vector and the time of the call.
C27_LocalWriterKeepsOtherLabels ==
    (wr_last # NoCall /\ wr_last.writer = "semantic") =>
        /\ \A r \in wr_last.before :
              <<r.id, r.label>> \notin WrittenKeys => r \in wr_table
        /\ wr_last.ok =>
              /\ \A id \in wr_last.ids :
                    [id |-> id, label |-> wr_last.label, vec |-> wr_last.vec,
                     at |-> wr_clock] \in wr_table
              /\ Satisfies(wr_table, UniquePair)
              /\ Cardinality(wr_table) =
                    Cardinality({<<r.id, r.label>> : r \in wr_last.before} \cup WrittenKeys)

\* _insert_embeddings_batch of embeddings/papers.py wrote paper 1 under L2:
\* the row paper 1 had under L is gone.
C27_LabelOverwritten ==
    /\ wr_last.writer = "legacy"
    /\ wr_last.ok
    /\ wr_last.label = OtherModelName
    /\ 1 \in wr_last.ids
    /\ \E r \in wr_last.before : r.id = 1 /\ r.label = SEMANTIC_SEARCH_MODEL_NAME
    /\ ~ \E r \in wr_table : r.id = 1 /\ r.label = SEMANTIC_SEARCH_MODEL_NAME

\* The writer of semantic/embeddings.py wrote paper 1 under L where a row of
\* paper 1 under L2 and one under L were stored: both are there afterwards.
C27_LabelsCoexist ==
    /\ wr_last.writer = "semantic"
    /\ wr_last.ok
    /\ wr_last.label = SEMANTIC_SEARCH_MODEL_NAME
    /\ 1 \in wr_last.ids
    /\ \E r \in wr_last.before : r.id = 1 /\ r.label = OtherModelName /\ r \in wr_table
    /\ \E r \in wr_last.before : r.id = 1 /\ r.label = SEMANTIC_SEARCH_MODEL_NAME
    /\ \E r \in wr_table : r.id = 1 /\ r.label = SEMANTIC_SEARCH_MODEL_NAME /\ r.at = wr_clock


(***************************************************************************)
(* Claims about _ensure_embedding_index                                    *)
(***************************************************************************)
\* The table of the rows -> lists heuristic and the probes staircase
ListsByRows(n) ==
    IF n < 1000 THEN 50 ELSE IF n < 10000 THEN 100 ELSE IF n < 100000 THEN 200
    ELSE IF n < 1000000 THEN 1000 ELSE 2000

ProbesStaircase(lists) ==
    IF lists <= 50 THEN 5 ELSE IF lists <= 100 THEN 10 ELSE IF lists <= 200 THEN 20
    ELSE IF lists <= 1000 THEN 50 ELSE 100

RanWithoutIndex == tn_last # NoRun /\ tn_last.before = NoIndex

\* C28: for a table with n non-null vectors, any n >= 0, and no existing
\* index, the tuner returns lists = 50, 100, 200, 1000, 2000 for n < 1k,
\* < 10k, < 100k, < 1M, >= 1M and the probes the staircase gives for that
\* lists value; probes is monotone non-decreasing in lists.
C28_ListsAndProbesByRows ==
    /\ RanWithoutIndex =>
          /\ tn_last.lists = ListsByRows(tn_last.rows)
          /\ tn_last.probes = ProbesStaircase(tn_last.lists)
    /\ \A l1, l2 \in TunerLists : l1 <= l2 => choose_probes(l1) <= choose_probes(l2)

\* What the tuner does: the table for n >= 1, and (50, 1) without any DDL
\* for an empty table.
C28_TunedWhenRowsExist ==
    RanWithoutIndex =>
        IF tn_last.rows = 0
        THEN tn_last.lists = 50 /\ tn_last.probes = 1 /\ tn_last.ddl = <<>>
        ELSE /\ tn_last.lists = ListsByRows(tn_last.rows)
             /\ tn_last.probes = ProbesStaircase(tn_last.lists)

\* The tuner ran on an empty table without index and returned (50, 1).
C28_EmptyTableProbesOne ==
    /\ RanWithoutIndex
    /\ tn_last.rows = 0
    /\ tn_last.lists = 50
    /\ tn_last.probes = 1

RanWithIndex == tn_last # NoRun /\ tn_last.before # NoIndex /\ ~ tn_last.dry_run

\* C29: when an index exists with lists = c and the heuristic gives d for
\* the live row count, the tuner drops and recreates the index with lists =
\* d exactly when max(c, d) > 1.5 * min(c, d); otherwise it executes no DDL,
\* keeps c and returns (c, probes derived from c).
C29_RecreateBeyondRatio ==
    RanWithIndex =>
        LET c == tn_last.before[1]
            d == ListsByRows(tn_last.rows)
        IN IF 2 * Max(c, d) > 3 * Min(c, d)
           THEN /\ tn_last.ddl = <<DropIndex, CreateIndex(d)>>
                /\ tn_last.after = <<d>>
           ELSE /\ tn_last.ddl = <<>>
                /\ tn_last.after = <<c>>
                /\ tn_last.lists = c
                /\ tn_last.probes = ProbesStaircase(c)

\* What the tuner does: the rule for a table with rows, and for an empty
\* table no DDL and (50, 1) whatever the index.
C29_RecreateWhenRowsExist ==
    RanWithIndex =>
        LET c == tn_last.before[1]
            d == ListsByRows(tn_last.rows)
        IN IF tn_last.rows = 0
           THEN /\ tn_last.ddl = <<>>
                /\ tn_last.after = <<c>>
                /\ tn_last.lists = 50
                /\ tn_last.probes = 1
           ELSE IF 2 * Max(c, d) > 3 * Min(c, d)
           THEN /\ tn_last.ddl = <<DropIndex, CreateIndex(d)>>
                /\ tn_last.after = <<d>>
                /\ tn_last.lists = d
                /\ tn_last.probes = ProbesStaircase(d)
           ELSE /\ tn_last.ddl = <<>>
                /\ tn_last.after = <<c>>
                /\ tn_last.lists = c
                /\ tn_last.probes = choose_probes(c)

\* The tuner ran on an empty table whose index has lists = 200: the index
\* is kept and (50, 1) is returned.
C29_EmptyTableIndexKept ==
    /\ RanWithIndex
    /\ tn_last.rows = 0
    /\ tn_last.before = <<200>>
    /\ tn_last.after = <<200>>
    /\ tn_last.ddl = <<>>
    /\ tn_last.lists = 50
    /\ tn_last.probes = 1

\* The tuner ran on 1000 rows with an index of lists = 151 and recreated it
\* with lists = 100; with lists = 150 it would have kept it.
C29_RecreatedAtBoundary ==
    /\ RanWithIndex
    /\ tn_last.rows = 1000
    /\ tn_last.before = <<151>>
    /\ tn_last.ddl = <<DropIndex, CreateIndex(100)>>
    /\ tn_last.after = <<100>>


(***************************************************************************)
(* Claims about _reconstruct_abstract                                      *)
(***************************************************************************)
\* The 0-based positions at which a word stands in a token sequence
PositionsOf(word, tokens) == {q \in 0..(Len(tokens) - 1) : tokens[q + 1] = word}

\* Every position from 0 to the largest is listed by exactly one word.
Dense(ix) ==
    /\ \A j, k \in 1..Len(ix) : j # k => ix[j][2] \cap ix[k][2] = {}
    /\ \A q \in 0..MaxPosition : q \in AllPositions(ix) =>
          \A before \in 0..q : before \in AllPositions(ix)

\* C30: for every inverted index, splitting the abstract produced by
\* _reconstruct_abstract on spaces gives a token sequence in which each word
\* occupies exactly the positions the inverted index listed for it.
C30_PositionsRoundTrip ==
    abs_pc = "returned" =>
        \A k \in 1..Len(abs_index) :
            PositionsOf(abs_index[k][1], SplitSpace(abs_text)) = abs_index[k][2]

\* What the function gives: the round trip for an index whose positions are
\* 0..n, each listed once.
C30_DenseRoundTrip ==
    (abs_pc = "returned" /\ Dense(abs_index)) =>
        \A k \in 1..Len(abs_index) :
            PositionsOf(abs_index[k][1], SplitSpace(abs_text)) = abs_index[k][2]

\* {"a": [0], "b": [2]} has come back as "a b": "b" is at position 1.
C30_GapClosed ==
    /\ abs_pc = "returned"
    /\ abs_index = << <<(<<"a">>), {0}>>, <<(<<"b">>), {2}>> >>
    /\ abs_text = <<"a", " ", "b">>
    /\ PositionsOf(<<"b">>, SplitSpace(abs_text)) = {1}

\* A dense index of two words over three positions has made the round trip.
C30_DenseReturned ==
    /\ abs_pc = "returned"
    /\ Dense(abs_index)
    /\ Len(abs_index) = 2
    /\ AllPositions(abs_index) = 0..2
    /\ Len(SplitSpace(abs_text)) = 3


(***************************************************************************)
(* Claims about failures inside ingest_openalex_concept                    *)
(***************************************************************************)
\* The run ended because a statement that writes the current work raised.
FailedInWork ==
    /\ ing_outcome = "failed"
    /\ ing_pc \in {"concepts", "authors", "paper", "links", "commit"}

\* C31: a store conflict or constraint violation while writing one work of
\* a concept task rolls back only that work's transaction: the work is
\* skipped and the works that follow it in the task are still fetched,
\* written and committed, so a task that has ended after such a failure has
\* left no work of the provider unfetched.
C31_FailedWorkSkipped ==
    FailedInWork => ing_idx = Len(ing_works)

\* What the task does: the failure ends it.  The works committed are the
\* ones before the failing work, nothing of the failing work is durable,
\* and the cursor row is as the run found it.
C31_FailureEndsTask ==
    FailedInWork =>
        /\ ing_count = ing_idx - 1
        /\ committed = txn
        /\ committed.ingested = ing_start.db.ingested

\* The first of two works failed in upsert_paper: the task is over, the
\* second work was never fetched and no paper is stored.
C31_FollowersNotFetched ==
    /\ FailedInWork
    /\ ing_run = 1
    /\ ing_pc = "links"
    /\ ing_idx = 1
    /\ Len(ing_works) = 2
    /\ committed.papers = {}


(***************************************************************************)
(* Claims about consecutive pages of the hybrid search                     *)
(***************************************************************************)
PagesFetched == pg_pc = "whole" /\ pg_req # NoRequest

PageIds(page) == [i \in DOMAIN page |-> page[i].paper_id]

\* No two papers of a page have the same combined score.
NoTie(page) ==
    \A i, j \in DOMAIN page :
        i # j => ~RatEq(page[i].combined_score, page[j].combined_score)

\* C32: for a fixed query, store, weights and top-K parameters the page
\* (limit L, offset 0) followed by the page (limit L, offset L) equals the
\* page (limit 2L, offset 0): no paper is repeated or skipped between
\* consecutive pages.
C32_PagesConcatenate ==
    PagesFetched =>
        /\ PageIds(pg_first) \o PageIds(pg_second) = PageIds(pg_whole)
        /\ \A i \in DOMAIN pg_first, j \in DOMAIN pg_second :
              pg_first[i].paper_id # pg_second[j].paper_id

\* The first page and the second page hold the same paper, and the paper
\* that leads the page of 2L is on neither; no two scores are equal.
C32_PaperRepeatedAndSkipped ==
    /\ PagesFetched
    /\ Len(pg_first) = 1 /\ Len(pg_second) = 1 /\ Len(pg_whole) = 2
    /\ NoTie(pg_whole)
    /\ pg_first[1].paper_id = pg_second[1].paper_id
    /\ pg_whole[1].paper_id # pg_first[1].paper_id
    /\ pg_whole[2].paper_id = pg_first[1].paper_id

\* The same on a store without any tie: paper 1 has no embedding and holds
\* c1 with score 1, paper 2 is at distance 1 and holds no concept, paper 3
\* is at distance 2 and holds c1 with 1/2 and c2 with 1; weights 0.6 and
\* 0.4, both top-K 2.  Paper 2 is on both pages, paper 3 on neither.
C32_TieFreeExample ==
    /\ PagesFetched
    /\ pg_store.dist = <<NoVec, <<1>>, <<2>> >>
    /\ pg_store.concepts = <<[c1 |-> <<1, 1>>, c2 |-> NoScore],
                             [c1 |-> NoScore, c2 |-> NoScore],
                             [c1 |-> <<1, 2>>, c2 |-> <<1, 1>>]>>
    /\ pg_req.top_k_concepts = 2 /\ pg_req.top_k_papers_per_concept = 2
    /\ pg_req.paper_weight = <<3, 5>>
    /\ PageIds(pg_first) = <<2>>
    /\ PageIds(pg_second) = <<2>>
    /\ PageIds(pg_whole) = <<3, 2>>


(***************************************************************************)
(* Claims about upsert_concept and upsert_author on an existing row        *)
(***************************************************************************)
ConceptHit ==
    /\ up_last.op = "concept"
    /\ \E r \in up_last.before.concepts : r.id = up_last.arg.id

AuthorHit ==
    /\ up_last.op = "author"
    /\ \E r \in up_last.before.authors : r.id = up_last.id

FoundByOpenalex ==
    AuthorsByOpenalex(up_last.before, up_last.arg.external_ids["openalex"]) # {}

\* C33: an upsert that hits an existing row updates its mutable metadata:
\* after upsert_concept on an existing concept id the stored name and level
\* are the incoming ones, and after upsert_author for an author that already
\* exists the stored name (and with it the affiliations, written by the same
\* statement) is that of the incoming author.
C33_HitUpdatesMetadata ==
    /\ ConceptHit =>
          \A r \in txn.concepts :
              r.id = up_last.arg.id =>
                  r.name = up_last.arg.name /\ r.level = up_last.arg.level
    /\ AuthorHit =>
          \A r \in txn.authors :
              r.id = up_last.id => r.full_name = up_last.arg.full_name

\* What the functions do: a concept that exists and an author found by the
\* openalex id are returned as they are stored; only an author found by the
\* ORCID conflict gets the incoming values.
C33_HitReturnsStoredRow ==
    /\ ConceptHit => txn.concepts = up_last.before.concepts
    /\ (AuthorHit /\ FoundByOpenalex) => txn.authors = up_last.before.authors
    /\ (AuthorHit /\ ~FoundByOpenalex) =>
          \A r \in txn.authors :
              r.id = up_last.id => r.full_name = up_last.arg.full_name

\* upsert_concept("C1", "t2", 0) on a store holding ("C1", "t1", 0): the
\* name stored is still "t1".
C33_ConceptNameKept ==
    /\ ConceptHit
    /\ up_last.arg = [id |-> "C1", name |-> "t2", level |-> 0]
    /\ \E r \in txn.concepts : r.id = "C1" /\ r.name = "t1"

\* upsert_author for an author stored under the same openalex id with
\* another name: the name stored is the old one.
C33_AuthorNameKept ==
    /\ AuthorHit
    /\ FoundByOpenalex
    /\ \E r \in txn.authors : r.id = up_last.id /\ r.full_name # up_last.arg.full_name

\* upsert_author for an author found by ORCID alone: the name is replaced.
C33_AuthorUpdatedByOrcid ==
    /\ AuthorHit
    /\ ~FoundByOpenalex
    /\ \E r \in up_last.before.authors :
          r.id = up_last.id /\ r.full_name # up_last.arg.full_name

(***************************************************************************)
(* Claims about the title of a paper row                                   *)
(***************************************************************************)
\* C34: after any sequence of ingestion and enrichment operations the paper
\* row has a non-empty title (neither null nor the empty string).
C34_TitleNeverEmpty ==
    tt_row.exists => tt_row.title # NoneTitle /\ tt_row.title # <<>>

\* What the code does: a title written by ingestion is stripped and
\* non-empty, and is "(untitled)" when the provider gave no usable title;
\* enrichment stores exactly what the provider returned.
C34_IngestNormalizesEnrichCopies ==
    /\ tt_last.op = "ingest" /\ tt_last.found_by # "openalex" =>
          /\ tt_row.title # NoneTitle /\ tt_row.title # <<>>
          /\ tt_row.title = Untitled \/ Strip(tt_row.title) = tt_row.title
          /\ (\A t \in {tt_last.title, tt_last.display_name} :
                  t = NoneTitle \/ Strip(t) = <<>>) => tt_row.title = Untitled
    /\ tt_last.op = "enrich" => tt_row.title = tt_last.title

\* A row ingested as "(untitled)" whose title enrichment then set to null
C34_EnrichmentStoredNull ==
    /\ tt_last.op = "enrich"
    /\ tt_row.exists
    /\ tt_row.title = NoneTitle

(***************************************************************************)
(* Claims about the convexity of the weights used                          *)
(***************************************************************************)
HybridAnswered == e_pc = "done" /\ e_used # <<>>

\* C35: for any caller-supplied weights, the weights the hybrid search uses
\* are both non-negative and sum to 1, so that combined_score is a convex
\* combination of paper_score and concept_score.
C35_WeightsConvex ==
    HybridAnswered =>
        /\ e_used[1] >= 0
        /\ e_used[2] >= 0
        /\ e_used[1] + e_used[2] = One

\* What the code does: search_papers_hybrid takes the weights as they come;
\* behind LitScoutAPI.search and the command line the weights sum to 1 and
\* are both non-negative exactly when the weight that is kept lies in 0..1.
C35_ConvexWhenKeptWeightInRange ==
    /\ HybridAnswered /\ e_call.entry = "search.py" =>
          e_used = <<e_call.paper_weight, e_call.concept_weight>>
    /\ HybridAnswered /\ e_call.entry \in {"api", "cli"} =>
          LET pw == e_call.paper_weight
              cw == e_call.concept_weight
              kept == IF pw + cw # One /\ pw = LegacyWeight THEN cw ELSE pw
          IN  /\ e_used[1] + e_used[2] = One
              /\ (e_used[1] >= 0 /\ e_used[2] >= 0) <=> kept <= One

\* LitScoutAPI.search(type="hybrid", paper_weight=1.2, concept_weight=0.0)
\* searches with the weights (1.2, -0.2)
C35_NegativeWeightUsed ==
    /\ HybridAnswered
    /\ e_call.entry = "api"
    /\ e_call.type = "hybrid"
    /\ e_call.paper_weight = 12 /\ e_call.concept_weight = 0
    /\ e_used = <<12, 0 - 2>>
    /\ e_outcome = "rows"

\* search_papers_hybrid called with (0.0, 0.0) searches with (0.0, 0.0)
C35_UnnormalisedDirectCall ==
    /\ HybridAnswered
    /\ e_call.entry = "search.py"
    /\ e_call.type = "search_papers_hybrid"
    /\ e_used = <<0, 0>>

(***************************************************************************)
(* Claims about a search that finds no concept                             *)
(***************************************************************************)
NoConceptFound == zc_store.cdist \in {[c \in ConceptIds |-> NoVec]}

\* The papers the direct search finds for the window of the request
DirectFound ==
    {p \in PaperIds : zc_store.dist[p] # NoVec}

\* C36: when the concept search returns no concept,
\* search_papers_via_concepts returns no concept, no paper and total_papers
\* 0 and has made no query on papers; search_papers_hybrid returns the
\* papers of the direct search, each with concept_score 0.
C36_NoConceptStillDirectPapers ==
    /\ zc_pc = "via" /\ NoConceptFound =>
          /\ zc_via = [concepts |-> <<>>, papers |-> <<>>, total_papers |-> 0]
          /\ zc_queried = <<"concept_ranking">>
    /\ zc_pc = "hybrid" /\ NoConceptFound =>
          LET found == Min(Cardinality(DirectFound), zc_req.offset + zc_req.limit)
          IN  /\ zc_hybrid.total_papers = found
              /\ Len(zc_hybrid.papers) = Min(zc_req.limit, Max(found - zc_req.offset, 0))
              /\ \A i \in DOMAIN zc_hybrid.papers :
                    /\ zc_hybrid.papers[i].paper_id \in DirectFound
                    /\ zc_hybrid.papers[i].concept_score = RatZero
                    /\ zc_hybrid.papers[i].paper_score =
                          CosineDistanceToScore(zc_store.dist[zc_hybrid.papers[i].paper_id][1])
              /\ \E r \in SearchPapers(zc_store, zc_req.offset + zc_req.limit, 0) :
                    {zc_hybrid.papers[i].paper_id : i \in DOMAIN zc_hybrid.papers}
                        \subseteq {r[i].paper_id : i \in DOMAIN r}

\* A hybrid search on a store with embedded papers and no embedded concept
\* that returned a paper
C36_Witness ==
    /\ zc_pc = "hybrid"
    /\ NoConceptFound
    /\ zc_hybrid.papers # <<>>
    /\ zc_hybrid.papers[1].concept_score = RatZero
    /\ \E p \in PaperIds : zc_store.concepts[p]["c1"] # NoScore
    /\ zc_queried = <<"paper_ranking", "concept_ranking">>

\* A concept search on the same kind of store that returned nothing
C36_ViaWitness ==
    /\ zc_pc = "via"
    /\ NoConceptFound
    /\ DirectFound # {}
    /\ zc_via.papers = <<>>

(***************************************************************************)
(* Claims about GET /search                                                *)
(***************************************************************************)
\* The request as the claim reads it: q present, top_k in 1..100 and
\* min_score in [0.0, 1.0], a parameter left out taking its default
Rejectable ==
    \/ ap_req.q = Absent
    \/ ap_req.top_k # Absent /\ (ap_req.top_k[1] < 1 \/ ap_req.top_k[1] > 100)
    \/ ap_req.min_score # Absent /\ (ap_req.min_score[1] < 0 \/ ap_req.min_score[1] > 10)

Answered422 == ap_status = 422 /\ ap_calls = <<>>

CalledOnceUnchanged ==
    /\ Len(ap_calls) = 1
    /\ ap_calls[1].query = ap_req.q[1]
    /\ ap_req.top_k # Absent => ap_calls[1].top_k = ap_req.top_k[1]
    /\ ap_req.top_k = Absent => ap_calls[1].top_k = 10
    /\ ap_req.min_score # Absent => ap_calls[1].min_score = ap_req.min_score[1]
    /\ ap_req.min_score = Absent => ap_calls[1].min_score = 0
    /\ ap_req.model # Absent => ap_calls[1].model_name = ap_req.model[1]
    /\ ap_req.model = Absent => ap_calls[1].model_name = "bge-small-en-v1.5-local"

\* C37 as stated: a request with q missing, top_k outside 1..100 or
\* min_score outside [0.0, 1.0] is answered 422 without a call of
\* semantic_search; every other request calls semantic_search exactly once
\* with its top_k, min_score and model unchanged and is answered 200 with
\* total_results the number of results returned.
C37_ValidRequestAnswered200 ==
    ap_pc = "done" =>
        /\ Rejectable => Answered422
        /\ ~Rejectable /\ ap_req.q # <<<<>>>> =>
              /\ CalledOnceUnchanged
              /\ ap_status = 200
              /\ ap_total = Len(ap_returned.titles)

\* C37 amended: the same, but the answer of a valid request is 200 with
\* total_results the number of results only when semantic_search returned
\* and every result fits the response model; it is 500 when semantic_search
\* raised or a result has no title.  An empty q is answered 422 as well.
C37_ValidRequestAnswered200Or500 ==
    ap_pc = "done" =>
        /\ Rejectable \/ ap_req.q = <<<<>>>> => Answered422
        /\ ~Rejectable /\ ap_req.q # <<<<>>>> =>
              /\ CalledOnceUnchanged
              /\ ap_returned.kind = "returned"
                   /\ (\A i \in DOMAIN ap_returned.titles : ap_returned.titles[i] # "None") =>
                     ap_status = 200 /\ ap_total = Len(ap_returned.titles)
              /\ ap_returned.kind = "raised"
                   \/ (\E i \in DOMAIN ap_returned.titles : ap_returned.titles[i] = "None") =>
                     ap_status = 500

\* /search?q=a&top_k=100&min_score=0.5&model=custom-model answered 200 with
\* the two results semantic_search returned
C37_Witness ==
    /\ ap_pc = "done"
    /\ ap_req = [q |-> <<<<"a">>>>, top_k |-> <<100>>, min_score |-> <<5>>,
                 model |-> <<"custom-model">>]
    /\ ap_calls = <<[query |-> <<"a">>, model_name |-> "custom-model", top_k |-> 100,
                     min_score |-> 5]>>
    /\ ap_status = 200
    /\ ap_total = 2

\* A valid request answered 500 because semantic_search raised
C37_ValidRequestAnswered500 ==
    /\ ap_pc = "done"
    /\ ap_req.q = <<<<"a">>>>
    /\ ap_req.top_k = Absent /\ ap_req.min_score = Absent
    /\ ap_returned.kind = "raised"
    /\ ap_status = 500

\* /search?q=a&top_k=101 answered 422 with no call
C37_TopKAboveCeilingRejected ==
    /\ ap_pc = "done"
    /\ ap_req.q = <<<<"a">>>>
    /\ ap_req.top_k = <<101>>
    /\ Answered422

(***************************************************************************)
(* Claims about the concept score of a hybrid result                       *)
(***************************************************************************)
\* The papers of the three hybrid calls made so far
PageRows == SeqRange(pg_first) \cup SeqRange(pg_second) \cup SeqRange(pg_whole)

\* (sum over the top-K_c concepts in the paper's concepts map of
\* concept_similarity * paper_concept_score) / K_c
WholeConceptScore(pid) ==
    LET top == CHOOSE cs \in SearchConcepts(pg_store, pg_req.top_k_concepts) : TRUE
        held == {i \in DOMAIN top : pg_store.concepts[pid][top[i].concept_id] # NoScore}
    IN  RatDivInt(RatSum({<<i, RatMul(top[i].similarity,
                                      pg_store.concepts[pid][top[i].concept_id])>> :
                             i \in held}),
                  pg_req.top_k_concepts)

\* C38: the concept_score of a paper of a hybrid result is the sum, over
\* the top-K_c concepts the paper holds, of similarity times the paper's
\* score for the concept, divided by K_c, whichever leg retrieved the paper.
C38_ConceptScoreSameFromEitherLeg ==
    \A r \in PageRows : RatEq(r.concept_score, WholeConceptScore(r.paper_id))

\* What the code does: the concept leg sums only the (concept, paper) rows
\* that survive rn <= top_k_papers_per_concept, so the score is at most the
\* whole sum, and it is the whole sum when no top concept has more holders
\* than top_k_papers_per_concept.
C38_ConceptScoreOfKeptRows ==
    /\ \A r \in PageRows : RatLE(r.concept_score, WholeConceptScore(r.paper_id))
    /\ (\A c \in ConceptIds :
           Cardinality({p \in PaperIds : pg_store.concepts[p][c] # NoScore})
               <= pg_req.top_k_papers_per_concept)
         => \A r \in PageRows : RatEq(r.concept_score, WholeConceptScore(r.paper_id))

\* A paper that holds both top concepts and is scored on one of them only
C38_TruncatedConceptScore ==
    /\ pg_pc = "whole"
    /\ pg_req.top_k_concepts = 2
    /\ pg_req.top_k_papers_per_concept = 1
    /\ \E r \in SeqRange(pg_whole) :
          /\ pg_store.concepts[r.paper_id] = [c1 |-> <<1, 2>>, c2 |-> <<1, 1>>]
          /\ ~RatEq(r.concept_score, WholeConceptScore(r.paper_id))
          /\ r.concept_score # RatZero

(***************************************************************************)
(* Claims about who writes the cursor row                                  *)
(***************************************************************************)
EndedPartWay == ing_outcome \in {"failed", "crashed"}

\* C39: the committed cursor rows differ from those the run found only when
\* the run has completed with every work of the provider committed; a run
\* that ended part-way has neither inserted nor updated the cursor row, so
\* after a first run that ended part-way the concept is not among the ids
\* skip_existing leaves out.
C39_CursorOnlyByCompleteRun ==
    /\ committed.ingested # ing_start.db.ingested =>
          /\ ing_outcome = "ok"
          /\ ing_idx = Len(ing_works)
          /\ ing_count = Len(ing_works)
    /\ EndedPartWay => committed.ingested = ing_start.db.ingested
    /\ EndedPartWay /\ ing_run = 1 => IngestConcept \notin IngestedIds

\* A first run that raised at the second of two works: the first work is
\* committed and the concept has no cursor row
C39_Witness ==
    /\ ing_outcome = "failed"
    /\ ing_run = 1
    /\ Len(ing_works) = 2
    /\ ing_idx = 2
    /\ ing_count = 1
    /\ committed.papers # {}
    /\ IngestConcept \notin IngestedIds

\* A first run that raised after the mark and before its commit
C39_FailedAfterMark ==
    /\ ing_outcome = "failed"
    /\ ing_run = 1
    /\ ing_pc = "mark"
    /\ IngestConcept \notin IngestedIds

(***************************************************************************)
(* Claims about closing connections                                        *)
(***************************************************************************)
CallOver == lk_outcome \in {"returned", "raised"}

\* C40: when an ingestion task, a search call or an embedding run has
\* returned or raised, every connection it opened is closed, whichever step
\* raised.
C40_EveryConnectionClosed ==
    CallOver => OpenLeft(lk_events) = 0

\* What the code does: ingest_openalex_concept and _ensure_index_once close
\* in a finally block; search_papers and _embed_missing_entities close on
\* their return paths only, so a call leaves its connection open exactly
\* when its query, its select or its insert raised.
C40_ClosedUnlessQueryOrInsertRaised ==
    CallOver =>
        /\ OpenLeft(lk_events) \in {0, 1}
        /\ OpenLeft(lk_events) = 1 <=> lk_fault \in {"query", "select", "insert"}
        /\ lk_kind = "ingest_openalex_concept" => OpenLeft(lk_events) = 0
        /\ lk_outcome = "returned" => OpenLeft(lk_events) = 0

\* search_papers whose SELECT raised, after the tuner's connection was closed
C40_SearchQueryErrorLeavesOpen ==
    /\ lk_kind = "search_papers"
    /\ lk_outcome = "raised"
    /\ lk_events = <<"open", "tune", "close", "encode", "open", "query error", "raise">>

\* _embed_missing_entities whose second batch failed to insert
C40_InsertErrorLeavesOpen ==
    /\ lk_kind = "_embed_missing_entities"
    /\ lk_outcome = "raised"
    /\ lk_events = <<"open", "select", "encode", "insert", "commit",
                     "encode", "insert error", "raise">>
    /\ OpenLeft(lk_events) = 1

\* An ingestion task whose provider raised has closed its connection
C40_IngestProviderErrorClosed ==
    /\ lk_kind = "ingest_openalex_concept"
    /\ lk_fault = "provider"
    /\ lk_outcome = "raised"
    /\ OpenLeft(lk_events) = 0

====
